---- MODULE Spec2Model ----
(***************************************************************************)
(* Model of the voice screening core of MindMate-tech/voice_models:        *)
(*   - TCN.reformat  (src/azrt2021/tcn.py): the sequence normalizer,       *)
(*   - TCN.forward   (src/azrt2021/tcn.py): the convolutional classifier,  *)
(*   - the score interpreter of predict_voice_from_audio (src/api.py).     *)
(*                                                                         *)
(* Tensors are modelled exactly but sparsely: a tensor is a record         *)
(*   [shape |-> <<d1, ..., dk>>, dtype |-> "float64" | "float32",          *)
(*    lib |-> "numpy" | "torch",                                           *)
(*    nz |-> function from 0-based index tuples to the non-zero values]    *)
(* and every index not in DOMAIN nz holds 0.  lib tells a numpy.ndarray    *)
(* from a torch.Tensor.  Values are integers; the cast to float32 rounds   *)
(* them as IEEE-754 binary32 does.                                         *)
(***************************************************************************)
EXTENDS Integers, Sequences, FiniteSets, TLC

VARIABLES
    Xs,        \* the collection handed to reformat / forward (mutated in place)
    Xin,       \* the collection as the caller built it (never written)
    pc,        \* position of the caller: which call has been made
    err,       \* the exception the last call raised, or NoError
    out,       \* the value TCN.forward returned, or NoTensor
    layer,     \* nn.Sequential position: number of layers of TCN.tcn applied
    cur,       \* shape of the activation after `layer` layers
    len0,      \* time length the activation entered the stack with
    fault,     \* the failure the library raised inside the stack, or NoFault
    logits,    \* the logit pair handed to the score interpreter
    verdict,   \* the interpreter's return value, or NoVerdict
    cliOut,    \* what test_voice.predict_voice printed and returned, or NoCli
    model_obj, \* api.model_obj: the global model handle, or NoModel (None)
    artifact,  \* the persisted weights: the logit pair they give each input
    resp,      \* the response to the request last handled, or NoResp
    nReq,      \* number of requests handled so far
    loadCalls, \* number of calls of api.load_model so far
    tmpfiles,  \* the temporary files that exist
    modelUrl,  \* whether MODEL_URL is set in the environment of the service
    pending,   \* the /predict requests waiting at `await file.read()`
    calls,     \* the inference calls in progress, each with its own locals
    lists,     \* the mfcc_list of each inference call
    dirs,      \* the audio files under the dementia and the normal directory
    disk,      \* the files the dataset scripts have written, in order
    ret        \* what the dataset script last run returned, or NoRet

prepVars == <<dirs, disk, ret>>

apiVars == <<cliOut, model_obj, artifact, resp, nReq, loadCalls, tmpfiles,
             modelUrl, pending, calls, lists, dirs, disk, ret>>

vars == <<Xs, Xin, pc, err, out, layer, cur, len0, fault, logits, verdict,
          cliOut, model_obj, artifact, resp, nReq, loadCalls, tmpfiles,
          modelUrl, pending, calls, lists, dirs, disk, ret>>

(***************************************************************************)
(* Bounds of the model                                                     *)
(***************************************************************************)
\* largest number of entries in a collection
MaxN == 2
\* logits handed to the interpreter range over -MaxLogit..MaxLogit
MaxLogit == 4

(***************************************************************************)
(* Program constants                                                       *)
(***************************************************************************)
\* tcn.py:138, the length reformat pads / truncates to
SAFE_SEQ_LENGTH == 16384
\* tcn.py:80, the length forward requires
FORWARD_LENGTH == 16384
\* tcn.py:22 in_channels, and the 13 of reformat's orientation test
NUM_CEP == 13

Min(a, b) == IF a < b THEN a ELSE b
Max(a, b) == IF a > b THEN a ELSE b

(***************************************************************************)
(* Exceptions                                                              *)
(***************************************************************************)
\* index -1: the message does not mention an index
NoIndex == -1
NoError == [type |-> "none", text |-> "", shape |-> <<>>, index |-> NoIndex]
Raise(type, text, shape, index) ==
    [type |-> type, text |-> text, shape |-> shape, index |-> index]

(***************************************************************************)
(* Sparse tensors                                                          *)
(***************************************************************************)
EmptyNz == [i \in {} |-> 0]
NoTensor == [shape |-> <<>>, dtype |-> "none", lib |-> "none", nz |-> EmptyNz]

\* torch.zeros(r, c, dtype=..., device=...)
Zeros(r, c, dtype) ==
    [shape |-> <<r, c>>, dtype |-> dtype, lib |-> "torch", nz |-> EmptyNz]

\* 2^k
RECURSIVE Pow(_, _)
Pow(b, k) == IF k = 0 THEN 1 ELSE b * Pow(b, k - 1)

\* number of bits of a positive integer
RECURSIVE BitLen(_)
BitLen(n) == IF n = 0 THEN 0 ELSE 1 + BitLen(n \div 2)

\* value of an integer after conversion to IEEE-754 binary32
\* (24 significant bits, round to nearest, ties to even)
RoundF32(v) ==
    LET a == IF v < 0 THEN -v ELSE v
        bits == BitLen(a)
        ulp == IF bits > 24 THEN Pow(2, bits - 24) ELSE 1
        q == a \div ulp
        r == a % ulp
        up == (2 * r > ulp) \/ (2 * r = ulp /\ q % 2 = 1)
        m == (IF up THEN q + 1 ELSE q) * ulp
    IN IF v < 0 THEN -m ELSE m

\* torch.tensor(x, dtype=torch.float32) / x.to(dtype=torch.float32)
ToFloat32(t) ==
    [shape |-> t.shape, dtype |-> "float32", lib |-> "torch",
     nz |-> [i \in DOMAIN t.nz |-> RoundF32(t.nz[i])]]

Dim(t) == Len(t.shape)

PermuteNone(t) == t
\* X.permute(1, 0) of a 2-D tensor
Permute10(t) ==
    [shape |-> <<t.shape[2], t.shape[1]>>, dtype |-> t.dtype, lib |-> t.lib,
     nz |-> [i \in {<<j[2], j[1]>> : j \in DOMAIN t.nz} |-> t.nz[<<i[2], i[1]>>]]]

CatFront(a, b) ==
    [shape |-> <<a.shape[1], a.shape[2] + b.shape[2]>>, dtype |-> a.dtype,
     lib |-> a.lib,
     nz |-> [i \in {<<j[1], j[2] + b.shape[2]>> : j \in DOMAIN a.nz}
                   \cup DOMAIN b.nz |->
               IF i \in DOMAIN b.nz THEN b.nz[i]
               ELSE a.nz[<<i[1], i[2] - b.shape[2]>>]]]
\* torch.cat([a, b], dim=1) of two 2-D tensors with the same number of rows
Cat1(a, b) ==
    [shape |-> <<a.shape[1], a.shape[2] + b.shape[2]>>, dtype |-> a.dtype,
     lib |-> a.lib,
     nz |-> [i \in DOMAIN a.nz
                   \cup {<<j[1], j[2] + a.shape[2]>> : j \in DOMAIN b.nz} |->
               IF i \in DOMAIN a.nz THEN a.nz[i]
               ELSE b.nz[<<i[1], i[2] - a.shape[2]>>]]]

SliceColsLast(t, n) ==
    LET k == Min(t.shape[2], n)
        off == t.shape[2] - k
    IN [shape |-> <<t.shape[1], k>>, dtype |-> t.dtype, lib |-> t.lib,
        nz |-> [i \in {<<j[1], j[2] - off>> : j \in {d \in DOMAIN t.nz : d[2] >= off}}
                  |-> t.nz[<<i[1], i[2] + off>>]]]
\* X[:, :n] of a 2-D tensor
SliceCols(t, n) ==
    [shape |-> <<t.shape[1], Min(t.shape[2], n)>>, dtype |-> t.dtype,
     lib |-> t.lib,
     nz |-> [i \in {j \in DOMAIN t.nz : j[2] < n} |-> t.nz[i]]]

\* X.view(1, X.shape[0], X.shape[1]) of a 2-D tensor
View3(t) ==
    [shape |-> <<1, t.shape[1], t.shape[2]>>, dtype |-> t.dtype,
     lib |-> t.lib,
     nz |-> [i \in {<<0, j[1], j[2]>> : j \in DOMAIN t.nz} |-> t.nz[<<i[2], i[3]>>]]]

\* the value a tensor holds at an index tuple
At(t, i) == IF i \in DOMAIN t.nz THEN t.nz[i] ELSE 0

(***************************************************************************)
(* TCN.reformat                                                            *)
(***************************************************************************)
PadOnly(x) ==
    LET seq_length == x.shape[2]
    IN IF seq_length < SAFE_SEQ_LENGTH
       THEN Cat1(x, Zeros(x.shape[1], SAFE_SEQ_LENGTH - seq_length, x.dtype))
       ELSE x
\* lines 168-177: pad with zeros at the end, or keep the first columns
PadOrTruncate(x) ==
    LET seq_length == x.shape[2]
    IN IF seq_length < SAFE_SEQ_LENGTH
       THEN Cat1(x, Zeros(x.shape[1], SAFE_SEQ_LENGTH - seq_length, x.dtype))
       ELSE IF seq_length > SAFE_SEQ_LENGTH
            THEN SliceCols(x, SAFE_SEQ_LENGTH)
            ELSE x

\* lines 157-160: the message holds the shape and no index
ShapeError(x, idx) ==
    Raise("ValueError", "Unexpected tensor shape", x.shape, NoIndex)

RankErrorLengthText(x, idx) ==
    Raise("ValueError", "Input sequence length is not equal to safe length",
          x.shape, NoIndex)
\* lines 148-149: the message holds the rank and the shape and no index
RankError(x, idx) ==
    Raise("ValueError", "Expected 2D tensor", x.shape, NoIndex)

ReformatEntryIdempotent(x, idx) ==
    LET x1 == ToFloat32(x)
    IN IF x1.shape = <<1, NUM_CEP, SAFE_SEQ_LENGTH>>
       THEN [x |-> x1, err |-> NoError]
       ELSE IF Dim(x1) # 2
       THEN [x |-> x1, err |-> RankError(x1, idx)]
       ELSE IF x1.shape[1] # NUM_CEP /\ x1.shape[2] # NUM_CEP
       THEN [x |-> x1, err |-> ShapeError(x1, idx)]
       ELSE [x |-> View3(PadOrTruncate(IF x1.shape[1] # NUM_CEP
                                       THEN Permute10(x1) ELSE x1)),
             err |-> NoError]
\* one iteration of the loop of reformat on entry x at 0-based index idx:
\* the value Xs[idx] holds when the iteration ends, and what it raised
ReformatEntry(x, idx) ==
    LET x1 == ToFloat32(x)
    IN IF Dim(x1) # 2
       THEN [x |-> x1, err |-> RankError(x1, idx)]
       ELSE IF x1.shape[1] # NUM_CEP /\ x1.shape[2] # NUM_CEP
       THEN [x |-> x1, err |-> ShapeError(x1, idx)]
       ELSE
         LET x2 == IF x1.shape[1] # NUM_CEP THEN Permute10(x1) ELSE x1
             x3 == PadOrTruncate(x2)
         IN IF x3.shape[2] # SAFE_SEQ_LENGTH
            THEN [x |-> x3,
                  err |-> Raise("AssertionError", "Expected sequence length",
                                x3.shape, NoIndex)]
            ELSE LET x4 == View3(x3)
                 IN IF x4.shape[3] # SAFE_SEQ_LENGTH
                    THEN [x |-> x4,
                          err |-> Raise("ValueError", "Final sequence length",
                                        x4.shape, NoIndex)]
                    ELSE [x |-> x4, err |-> NoError]

RECURSIVE ReformatFrom(_, _)
ReformatFromOnCopy(xs, k) ==
    LET bad == {i \in k..Len(xs) : ReformatEntry(xs[i], i - 1).err # NoError}
    IN IF bad = {}
       THEN [Xs |-> [i \in DOMAIN xs |->
                       IF i >= k THEN ReformatEntry(xs[i], i - 1).x
                       ELSE xs[i]],
             err |-> NoError]
       ELSE LET b == CHOOSE i \in bad : \A j \in bad : i <= j
            IN [Xs |-> xs, err |-> ReformatEntry(xs[b], b - 1).err]
\* the loop of reformat from 1-based position k on: entries are rewritten in
\* place in index order and the first exception ends the call
ReformatFrom(xs, k) ==
    IF k > Len(xs) THEN [Xs |-> xs, err |-> NoError]
    ELSE LET r == ReformatEntry(xs[k], k - 1)
             ys == [xs EXCEPT ![k] = r.x]
         IN IF r.err # NoError THEN [Xs |-> ys, err |-> r.err]
            ELSE ReformatFrom(ys, k + 1)

reformat(xs) == ReformatFrom(xs, 1)

(***************************************************************************)
(* TCN.tcn and TCN.mlp: the stack of stage descriptors                     *)
(***************************************************************************)
Conv(i, o, k, p) == [op |-> "conv", in |-> i, out |-> o, k |-> k, s |-> 1, p |-> p]
Elu == [op |-> "elu", in |-> 0, out |-> 0, k |-> 1, s |-> 1, p |-> 0]
Pool == [op |-> "pool", in |-> 0, out |-> 0, k |-> 4, s |-> 4, p |-> 0]

TcnLayersEightPools ==
    << Conv(13, 32, 1, 0), Conv(32, 32, 3, 1), Conv(32, 32, 3, 1), Elu, Pool,
       Conv(32, 64, 3, 1), Conv(64, 64, 3, 1), Elu, Pool,
       Conv(64, 128, 3, 1), Conv(128, 128, 3, 1), Elu, Pool,
       Conv(128, 128, 3, 1), Conv(128, 128, 3, 1), Elu, Pool,
       Conv(128, 256, 3, 1), Conv(256, 256, 3, 1), Elu, Pool,
       Conv(256, 256, 3, 1), Conv(256, 256, 3, 1), Elu, Pool,
       Conv(256, 512, 3, 1), Conv(512, 512, 3, 1), Elu, Pool,
       Conv(512, 512, 3, 1), Conv(512, 512, 3, 1), Elu, Pool >>
\* tcn.py:20-64, nn.Sequential in order
TcnLayers ==
    << Conv(13, 32, 1, 0), Conv(32, 32, 3, 1), Conv(32, 32, 3, 1), Elu, Pool,
       Conv(32, 64, 3, 1), Conv(64, 64, 3, 1), Elu, Pool,
       Conv(64, 128, 3, 1), Conv(128, 128, 3, 1), Elu, Pool,
       Conv(128, 128, 3, 1), Conv(128, 128, 3, 1), Elu, Pool,
       Conv(128, 256, 3, 1), Conv(256, 256, 3, 1), Elu, Pool,
       Conv(256, 256, 3, 1), Conv(256, 256, 3, 1), Elu, Pool,
       Conv(256, 512, 3, 1), Conv(512, 512, 3, 1), Elu, Pool,
       Conv(512, 512, 3, 1), Conv(512, 512, 3, 1), Elu >>

MlpHeadBiased == [in |-> 512, out |-> 2, bias |-> TRUE]
\* tcn.py:66-68, nn.Linear(512, 2, bias=False)
MlpHead == [in |-> 512, out |-> 2, bias |-> FALSE]

\* one layer applied to an activation of shape (B, C, L): the shape it
\* produces, or the RuntimeError the library raises
ApplyLayer(l, shape) ==
    LET L == shape[3]
        Lout == ((L + 2 * l.p - l.k) \div l.s) + 1
    IN IF l.op = "elu" THEN [shape |-> shape, err |-> NoError]
       ELSE IF l.op = "conv"
       THEN IF shape[2] # l.in
            THEN [shape |-> shape,
                  err |-> Raise("RuntimeError", "conv1d: channels mismatch",
                                shape, NoIndex)]
            ELSE IF L + 2 * l.p < l.k
            THEN [shape |-> shape,
                  err |-> Raise("RuntimeError", "conv1d: kernel larger than input",
                                shape, NoIndex)]
            ELSE [shape |-> <<shape[1], l.out, Lout>>, err |-> NoError]
       ELSE IF Lout <= 0
            THEN [shape |-> shape,
                  err |-> Raise("RuntimeError",
                                "max_pool1d: Invalid computed output size",
                                shape, NoIndex)]
            ELSE [shape |-> <<shape[1], shape[2], Lout>>, err |-> NoError]

\* self.tcn(X): the layers from position k on applied in order
RECURSIVE TcnFrom(_, _)
TcnFrom(shape, k) ==
    IF k > Len(TcnLayers) THEN [shape |-> shape, err |-> NoError]
    ELSE LET r == ApplyLayer(TcnLayers[k], shape)
         IN IF r.err # NoError THEN r ELSE TcnFrom(r.shape, k + 1)

\* torch.mean(tmp, dim=2) of a 3-axis activation
MeanDim2(shape) == <<shape[1], shape[2]>>

\* self.mlp(tmp) on a (B, C) activation
Mlp(shape) ==
    IF shape[2] # MlpHead.in
    THEN [shape |-> shape,
          err |-> Raise("RuntimeError", "linear: shapes cannot be multiplied",
                        shape, NoIndex)]
    ELSE [shape |-> <<shape[1], MlpHead.out>>, err |-> NoError]

\* tmp.squeeze(): every axis of length 1 is removed
Squeeze(shape) == SelectSeq(shape, LAMBDA d : d # 1)

(***************************************************************************)
(* TCN.forward                                                             *)
(***************************************************************************)
\* The weights are opaque: a computed row is its shape and the input it was
\* computed from.
Row(shape, X) == [shape |-> shape, of |-> X]
NoOut == [shape |-> <<>>, rows |-> <<>>]

\* lines 81-85: the message holds the length, the shape and the index
LengthError(X, idx) ==
    Raise("ValueError", "Input sequence length is not equal to safe length",
          X.shape, idx)

\* raise ... from e: the new error with e attached as its cause
From(new, e) ==
    [type |-> new.type, text |-> new.text, shape |-> new.shape,
     index |-> new.index, cause |-> e]

ReraiseNoIndex(e, X, idx) ==
    IF e.type = "RuntimeError"
       /\ e.text = "max_pool1d: Invalid computed output size"
    THEN From(Raise("RuntimeError", "MaxPool1d error for input at index",
                    X.shape, NoIndex), e)
    ELSE e
\* lines 94-101: a max_pool1d RuntimeError is re-raised with index and
\* shape, the original attached; every other error is re-raised as it is
Reraise(e, X, idx) ==
    IF e.type = "RuntimeError"
       /\ e.text = "max_pool1d: Invalid computed output size"
    THEN From(Raise("RuntimeError", "MaxPool1d error for input at index",
                    X.shape, idx), e)
    ELSE e

\* no failure of the library
NoFault == [index |-> NoIndex, error |-> NoError]

\* the first Conv1d of self.tcn as the library accepts X: a numpy array
\* is no argument of conv1d (TypeError); a tensor must be of float32, as
\* the weights are, and batched (B, C, L) or unbatched (C, L)
ConvInput(X) ==
    IF X.lib # "torch"
    THEN Raise("TypeError",
               "conv1d() received an invalid combination of arguments",
               X.shape, NoIndex)
    ELSE IF X.dtype # "float32" \/ Dim(X) \notin {2, 3}
    THEN Raise("RuntimeError", "conv1d: input not accepted", X.shape, NoIndex)
    ELSE NoError

\* one iteration of the loop of forward on X at 0-based index idx
ForwardEntry(X, idx) ==
    IF Dim(X) < 3
    THEN \* line 80: X.shape[2] of a tensor with fewer than three axes; the
         \* message of the IndexError holds neither shape nor index
         [row |-> Row(<<>>, X),
          err |-> Raise("IndexError", "tuple index out of range", <<>>,
                        NoIndex)]
    ELSE IF X.shape[3] # FORWARD_LENGTH
    THEN [row |-> Row(<<>>, X), err |-> LengthError(X, idx)]
    ELSE IF ConvInput(X) # NoError
    THEN [row |-> Row(<<>>, X), err |-> Reraise(ConvInput(X), X, idx)]
    ELSE LET t == TcnFrom(X.shape, 1)
         IN IF t.err # NoError
            THEN [row |-> Row(<<>>, X), err |-> Reraise(t.err, X, idx)]
            ELSE LET m == Mlp(MeanDim2(t.shape))
                 IN IF m.err # NoError
                    THEN [row |-> Row(<<>>, X), err |-> Reraise(m.err, X, idx)]
                    ELSE [row |-> Row(Squeeze(m.shape), X), err |-> NoError]

StackReversed(rows) ==
    IF rows = <<>>
    THEN [out |-> NoOut,
          err |-> Raise("RuntimeError", "stack expects a non-empty TensorList",
                        <<>>, NoIndex)]
    ELSE [out |-> [shape |-> <<Len(rows)>> \o rows[1].shape,
                   rows |-> [i \in 1..Len(rows) |-> rows[Len(rows) + 1 - i]]],
          err |-> NoError]
\* torch.stack(out)
Stack(rows) ==
    IF rows = <<>>
    THEN [out |-> NoOut,
          err |-> Raise("RuntimeError", "stack expects a non-empty TensorList",
                        <<>>, NoIndex)]
    ELSE IF \E i \in 1..Len(rows) : rows[i].shape # rows[1].shape
    THEN [out |-> NoOut,
          err |-> Raise("RuntimeError", "stack expects each tensor to be equal size",
                        <<>>, NoIndex)]
    ELSE [out |-> [shape |-> <<Len(rows)>> \o rows[1].shape, rows |-> rows],
          err |-> NoError]

\* the loop of forward from 1-based position k on, then the stacking
RECURSIVE ForwardFrom(_, _, _)
ForwardFrom(xs, k, acc) ==
    IF k > Len(xs) THEN Stack(acc)
    ELSE LET r == ForwardEntry(xs[k], k - 1)
         IN IF r.err # NoError THEN [out |-> NoOut, err |-> r.err]
            ELSE ForwardFrom(xs, k + 1, Append(acc, r.row))

forward(xs) == ForwardFrom(xs, 1, <<>>)

\* tcn.py:115-119
get_scores(xs) == forward(xs)

(***************************************************************************)
(* TCN.forward_wo_gpool                                                    *)
(***************************************************************************)
\* self.tcn(X); an unbatched result has no batch axis
TcnCall(X) ==
    IF ConvInput(X) # NoError
    THEN [shape |-> X.shape, err |-> ConvInput(X)]
    ELSE IF Dim(X) = 3 THEN TcnFrom(X.shape, 1)
    ELSE LET t == TcnFrom(<<1>> \o X.shape, 1)
         IN IF t.err # NoError THEN [shape |-> X.shape, err |-> t.err]
            ELSE [shape |-> Tail(t.shape), err |-> NoError]

WoGpoolEntryPooled(X) ==
    LET t == TcnCall(X)
    IN IF t.err # NoError THEN [row |-> Row(<<>>, X), err |-> t.err]
       ELSE [row |-> Row(MeanDim2(t.shape), X), err |-> NoError]
\* lines 110-112: one iteration of the loop, tmp = self.tcn(X) appended
WoGpoolEntry(X) ==
    LET t == TcnCall(X)
    IN IF t.err # NoError THEN [row |-> Row(<<>>, X), err |-> t.err]
       ELSE [row |-> Row(t.shape, X), err |-> NoError]

\* lines 109-113: the loop from 1-based position k on; the list is returned
\* as it is
RECURSIVE WoGpoolFrom(_, _, _)
WoGpoolFrom(xs, k, acc) ==
    IF k > Len(xs) THEN [out |-> [shape |-> <<>>, rows |-> acc], err |-> NoError]
    ELSE LET r == WoGpoolEntry(xs[k])
         IN IF r.err # NoError THEN [out |-> NoOut, err |-> r.err]
            ELSE WoGpoolFrom(xs, k + 1, Append(acc, r.row))

forward_wo_gpool(xs) == WoGpoolFrom(xs, 1, <<>>)

(***************************************************************************)
(* Score interpreter of predict_voice_from_audio (api.py:276-309)          *)
(***************************************************************************)
\* e^(-d) for d = 0, 1, 2, ... in units of 10^-6
ExpNeg == << 1000000, 367879, 135335, 49787, 18316, 6738, 2479, 912, 335,
             123, 45, 17, 6 >>

\* torch.softmax(scores, dim=1) on one row: exp(x - max) / sum, each
\* probability kept as the exact fraction num / den
Softmax(l) ==
    LET m == Max(l[1], l[2])
        e == [i \in 1..2 |-> ExpNeg[(m - l[i]) + 1]]
    IN [i \in 1..2 |-> [num |-> e[i], den |-> e[1] + e[2]]]

\* round(p, 4), in units of 10^-4 (round half to even)
Round4(p) ==
    LET q1 == (p.num * 100) \div p.den
        r1 == (p.num * 100) % p.den
        q2 == (r1 * 100) \div p.den
        r2 == (r1 * 100) % p.den
        v == q1 * 100 + q2
    IN IF 2 * r2 > p.den \/ (2 * r2 = p.den /\ v % 2 = 1) THEN v + 1 ELSE v

\* p > 0.5
AboveHalf(p) == 2 * p.num > p.den

NoVerdict == [status |-> "none", result |-> "", normal |-> 0, dementia |-> 0,
              confidence |-> 0]

InterpretSwapped(probs) ==
    LET dementia_prob == probs[2]
        normal_prob == probs[1]
        hit == AboveHalf(dementia_prob)
    IN [status |-> "success",
        result |-> IF hit THEN "dementia_detected" ELSE "normal",
        normal |-> Round4(normal_prob),
        dementia |-> Round4(dementia_prob),
        confidence |-> Round4(IF hit THEN dementia_prob ELSE normal_prob)]
InterpretNotStrict(probs) ==
    LET dementia_prob == probs[1]
        normal_prob == probs[2]
        hit == 2 * dementia_prob.num >= dementia_prob.den
    IN [status |-> "success",
        result |-> IF hit THEN "dementia_detected" ELSE "normal",
        normal |-> Round4(normal_prob),
        dementia |-> Round4(dementia_prob),
        confidence |-> Round4(IF hit THEN dementia_prob ELSE normal_prob)]
\* api.py:280-309: index 0 is the dementia probability, index 1 the normal
\* one; strict threshold on the dementia probability
Interpret(probs) ==
    LET dementia_prob == probs[1]
        normal_prob == probs[2]
        hit == AboveHalf(dementia_prob)
    IN [status |-> "success",
        result |-> IF hit THEN "dementia_detected" ELSE "normal",
        normal |-> Round4(normal_prob),
        dementia |-> Round4(dementia_prob),
        confidence |-> Round4(IF hit THEN dementia_prob ELSE normal_prob)]

(***************************************************************************)
(* Score interpretation of test_voice.predict_voice (test_voice.py:132-156)*)
(***************************************************************************)
NoCli == [warning |-> FALSE, printedDementia |-> -1, printedNormal |-> -1,
          returned |-> [num |-> 0, den |-> 1]]

PredictVoiceInterpretUnflipped(probs) ==
    LET dementia_prob == probs[2]
        normal_prob == probs[1]
    IN [warning |-> AboveHalf(dementia_prob),
        printedDementia |-> Round4(dementia_prob),
        printedNormal |-> Round4(normal_prob),
        returned |-> dementia_prob]
\* index 0 is the dementia probability, index 1 the normal one; both are
\* printed with four decimals, the warning is printed when the dementia
\* probability is above 0.5, and the dementia probability is returned
PredictVoiceInterpret(probs) ==
    LET dementia_prob == probs[1]
        normal_prob == probs[2]
    IN [warning |-> AboveHalf(dementia_prob),
        printedDementia |-> Round4(dementia_prob),
        printedNormal |-> Round4(normal_prob),
        returned |-> dementia_prob]

(***************************************************************************)
(* The service of api.py                                                   *)
(***************************************************************************)
\* model_obj = None
NoModel == [id |-> 0, weights |-> "none", onDevice |-> FALSE,
            evalMode |-> FALSE, gradOff |-> FALSE]

\* no response yet.  A response holds the number of its request (n), what
\* the client sees (status, detail
\* with the prefixes it was wrapped in, result, model_loaded) and what the
\* handler did to produce it (found, loadAttempts, loadFailed, tmpCreated,
\* ran: the steps of predict_voice_from_audio it executed, in order,
\* failed: the step that raised, grad: gradient tracking during get_scores).
NoResp == [handler |-> "none", n |-> 0, status |-> 0, detail |-> NoError, wrap |-> <<>>,
           result |-> NoVerdict, modelLoaded |-> FALSE, found |-> FALSE,
           loadAttempts |-> 0, loadFailed |-> FALSE, tmpCreated |-> FALSE,
           ran |-> <<>>, failed |-> "none", grad |-> "unused"]

\* None, as a path or a return value of the dataset scripts
None == "None"

\* no directory listed, nothing written, no script run
NoDirs == [dementia |-> {}, normal |-> {}]

NoDisk == [mfcc |-> <<>>, csv |-> <<>>, tasks |-> {}, log |-> <<>>]

NoRet == [script |-> "none", input |-> "none", value |-> <<>>, run |-> 0,
          importOk |-> TRUE]

\* the dataset scripts are not part of the specification
PrepIdle ==
    /\ dirs = NoDirs
    /\ disk = NoDisk
    /\ ret = NoRet

(***************************************************************************)
(* Inputs                                                                  *)
(***************************************************************************)
\* time lengths of the feature matrices handed to reformat
TimeLens == {0, 1, 13, 16383, 16384, 16385}

\* an integer that binary32 cannot hold: 2^24 + 1
BigOdd == Pow(2, 24) + 1

\* the indices along an axis of length n at which a probe matrix is non-zero
ProbeIdx(n) == {i \in {0, n - 1, 16383, 16384} : 0 <= i /\ i < n}

ProbeValue(i) == IF i[1] = 0 /\ i[2] = 0 THEN BigOdd
                 ELSE 2 + 3 * (i[1] % 5) + (i[2] % 5)

\* a numpy float64 matrix (r, c), as the feature extractor gives them,
\* non-zero at its corners and around column 16384
Probe2D(r, c) ==
    [shape |-> <<r, c>>, dtype |-> "float64", lib |-> "numpy",
     nz |-> [i \in ProbeIdx(r) \X ProbeIdx(c) |-> ProbeValue(i)]]

\* the content of a channel-major matrix (13, T) laid out as (T, 13)
TimeMajor(m) ==
    [shape |-> <<m.shape[2], m.shape[1]>>, dtype |-> m.dtype, lib |-> m.lib,
     nz |-> [i \in {<<j[2], j[1]>> : j \in DOMAIN m.nz} |-> m.nz[<<i[2], i[1]>>]]]

\* numpy.zeros((r, c))
ZerosArray(r, c) ==
    [shape |-> <<r, c>>, dtype |-> "float64", lib |-> "numpy", nz |-> EmptyNz]

\* torch.from_numpy(a): the same content as a tensor
FromNumpy(a) == [a EXCEPT !.lib = "torch"]

\* channel-major arrays (13, T), the same content time-major (T, 13),
\* arrays with no axis of length 13, and two tensors with two axes: one
\* of float64 and one of float32
Matrices ==
    LET cm == {Probe2D(NUM_CEP, T) : T \in TimeLens}
              \cup {ZerosArray(NUM_CEP, T) : T \in TimeLens}
    IN cm \cup {TimeMajor(m) : m \in cm}
          \cup {Probe2D(12, 16384), Probe2D(5, 7)}
          \cup {FromNumpy(Probe2D(NUM_CEP, 16384)),
                ToFloat32(Probe2D(NUM_CEP, 16384))}

\* a float32 tensor (B, 13, T) as forward expects them, non-zero at two places
Probe3D(B, T) ==
    [shape |-> <<B, NUM_CEP, T>>, dtype |-> "float32", lib |-> "torch",
     nz |-> [i \in {<<0, 0, 0>>, <<B - 1, NUM_CEP - 1, T - 1>>} |-> 3 + i[2]]]

Tensors3D ==
    {Probe3D(1, T) : T \in {1, 16383, 16384, 16385}}
    \cup {Probe3D(2, 16384),
          [shape |-> <<1, NUM_CEP, 16384>>, dtype |-> "float32",
           lib |-> "torch", nz |-> EmptyNz]}

\* a one-axis array (13,)
Vector13 == [shape |-> <<NUM_CEP>>, dtype |-> "float64", lib |-> "numpy",
             nz |-> [i \in {<<0>>} |-> 5]]

Entries == Matrices \cup Tensors3D \cup {Vector13}

Collections == UNION {[1..n -> Entries] : n \in 0..MaxN}

LogitPairs == (-MaxLogit..MaxLogit) \X (-MaxLogit..MaxLogit)

\* time lengths with which an activation enters the stack
StackLens == {1, 3, 4, 4096, 16383, 16384, 16385, 32768, 65536}

(***************************************************************************)
(* api.load_model                                                          *)
(***************************************************************************)
\* the step of load_model that raises: finding the file (lines 177-205) or
\* downloading it (164-174), TCN(device) / Model(...) (211-212),
\* model_obj.load_model (213), model_obj.to(device) (217), or none
LoadFailures == {"none", "path", "download", "construct", "weights", "device"}

\* with MODEL_URL set the file is downloaded and never searched (lines
\* 149-177); without it nothing is downloaded
LoadFailuresWith(url) ==
    LoadFailures \ (IF url THEN {"path"} ELSE {"download"})

LoadError(failAt) ==
    IF failAt = "none" THEN NoError
    ELSE Raise("Exception", "load_model: " \o failAt, <<>>, NoIndex)

\* load_model(): the value of the global model_obj when the call ends, the
\* exception it raised, and whether it leaves a temporary file.  The global
\* is assigned at line 212, before the weights are loaded.  id names the
\* new Model object, saved tells whether the artifact was saved from the
\* target device, url whether MODEL_URL is set: the model is then
\* downloaded into NamedTemporaryFile(delete=False), which is unlinked only
\* where the download fails (lines 164-174).
LoadModel(m, id, failAt, saved, url) ==
    LET fresh == [id |-> id, weights |-> "init", onDevice |-> TRUE,
                  evalMode |-> FALSE, gradOff |-> FALSE]
        loaded == [fresh EXCEPT !.weights = "artifact", !.onDevice = saved]
        moved == [loaded EXCEPT !.onDevice = TRUE]
        ready == [moved EXCEPT !.evalMode = TRUE, !.gradOff = TRUE]
        tmp == url /\ failAt # "download"
    IN CASE failAt \in {"path", "download", "construct"} ->
              [model |-> m, err |-> LoadError(failAt), tmp |-> tmp]
         [] failAt = "weights" ->
              [model |-> fresh, err |-> LoadError(failAt), tmp |-> tmp]
         [] failAt = "device" ->
              [model |-> loaded, err |-> LoadError(failAt), tmp |-> tmp]
         [] OTHER -> [model |-> ready, err |-> NoError, tmp |-> tmp]

NeedsLoadAlways(m) == TRUE
\* lines 384 and 451: if model_obj is None
NeedsLoad(m) == m = NoModel

LazyLoadRetry(m, id, failAt, saved, url) ==
    IF ~NeedsLoad(m)
    THEN [model |-> m, err |-> NoError, attempts |-> 0, tmp |-> FALSE]
    ELSE LET r == LoadModel(m, id, failAt, saved, url)
         IN IF r.err = NoError
            THEN [model |-> r.model, err |-> r.err, attempts |-> 1,
                  tmp |-> r.tmp]
            ELSE LET r2 == LoadModel(r.model, id + 1, failAt, saved, url)
                 IN [model |-> r2.model, err |-> r2.err, attempts |-> 2,
                     tmp |-> r2.tmp]
\* lines 383-391 and 450-458: load the model if it is not loaded yet
LazyLoad(m, id, failAt, saved, url) ==
    IF ~NeedsLoad(m)
    THEN [model |-> m, err |-> NoError, attempts |-> 0, tmp |-> FALSE]
    ELSE LET r == LoadModel(m, id, failAt, saved, url)
         IN [model |-> r.model, err |-> r.err, attempts |-> 1, tmp |-> r.tmp]

(***************************************************************************)
(* api.predict_voice_from_audio                                            *)
(***************************************************************************)
\* The recordings a request can carry: whether load_audio_file reads it,
\* whether the extractor accepts it, and the feature matrix it extracts.
Audios ==
    { [id |-> "a1", readable |-> TRUE, extractable |-> TRUE,
       features |-> TimeMajor(Probe2D(NUM_CEP, 1))],
      [id |-> "a2", readable |-> TRUE, extractable |-> TRUE,
       features |-> TimeMajor(Probe2D(NUM_CEP, 16385))],
      [id |-> "vec", readable |-> TRUE, extractable |-> TRUE,
       features |-> Vector13],
      [id |-> "short", readable |-> TRUE, extractable |-> FALSE,
       features |-> NoTensor],
      [id |-> "bad", readable |-> FALSE, extractable |-> FALSE,
       features |-> NoTensor] }

\* the logit pairs the weights can give
ArtLogits == {<<1, -1>>, <<0, 0>>, <<-1, 1>>}

\* the persisted weights, as the logit pair they give each recording
Artifacts == [{"a1", "a2"} -> ArtLogits]

Http500AsNormal(prefix, e) ==
    [NoResp EXCEPT !.status = 200,
                   !.result = [status |-> "success", result |-> "normal",
                               normal |-> 10000, dementia |-> 0,
                               confidence |-> 10000]]
\* lines 311-312, 408-412, 520-524: HTTPException(500, prefix + str(e))
Http500(prefix, e) ==
    [NoResp EXCEPT !.status = 500, !.detail = e, !.wrap = <<prefix>>]

\* lines 240-241
ModelNotLoaded ==
    [NoResp EXCEPT !.status = 503,
                   !.detail = Raise("HTTPException", "Model not loaded", <<>>,
                                    NoIndex)]

GetScoresTraining(m) == [m EXCEPT !.evalMode = FALSE, !.gradOff = FALSE]
\* lines 276-277: the model after get_scores under torch.no_grad(); the
\* call reads the parameters and assigns nothing
GetScoresNoGrad(m) == m

\* lines 311-312: the call ends by raising HTTPException(500) after running
\* the steps ran, of which the last raised e
StepFailed(m, ran, e) ==
    [resp |-> [Http500("Error processing audio", e)
                 EXCEPT !.ran = ran, !.failed = ran[Len(ran)],
                        !.grad = IF ran[Len(ran)] = "classify"
                                 THEN "disabled" ELSE "unused"],
     model |-> m]

\* lines 276-277: the logit pair of get_scores on the list xs under
\* torch.no_grad(), or the error it raises
Scores(m, art, initL, audio, xs) ==
    IF ~m.onDevice
    THEN [logits |-> <<0, 0>>,
          err |-> Raise("RuntimeError", "tensors on different devices",
                        <<>>, NoIndex)]
    ELSE [logits |-> IF m.weights = "artifact" THEN art[audio.id] ELSE initL,
          err |-> get_scores(xs).err]

\* lines 278-309, after get_scores has given scored
Scored(m, scored) ==
    IF scored.err # NoError
    THEN StepFailed(GetScoresNoGrad(m),
                    <<"load_audio", "extract", "normalize", "classify">>,
                    scored.err)
    ELSE [resp |-> [NoResp EXCEPT
                      !.status = 200,
                      !.result = Interpret(Softmax(scored.logits)),
                      !.ran = <<"load_audio", "extract", "normalize",
                                "classify", "interpret">>,
                      !.grad = "disabled"],
          model |-> GetScoresNoGrad(m)]

\* lines 275-309, after reformat has given norm
Normalized(m, art, initL, audio, norm) ==
    IF norm.err # NoError
    THEN StepFailed(m, <<"load_audio", "extract", "normalize">>, norm.err)
    ELSE Scored(m, Scores(m, art, initL, audio, norm.Xs))

\* lines 243-312.  m is model_obj, art the weights of the artifact, initL
\* the logit pair freshly initialised weights give, audio the recording.
\* The result is the response, with the handle as the call leaves it.
predict_voice_from_audio(m, art, initL, audio) ==
    IF m = NoModel THEN [resp |-> ModelNotLoaded, model |-> m]
    ELSE IF ~audio.readable
    THEN StepFailed(m, <<"load_audio">>,
                    Raise("Exception", "load_audio_file failed", <<>>,
                          NoIndex))
    ELSE IF ~audio.extractable
    THEN StepFailed(m, <<"load_audio", "extract">>,
                    Raise("Exception", "MFCC_Extractor failed", <<>>,
                          NoIndex))
    ELSE Normalized(m, art, initL, audio, reformat(<<audio.features>>))

(***************************************************************************)
(* Specification of the calls on TCN: a caller builds a collection, may     *)
(* normalise it with reformat, and may score it with forward / get_scores   *)
(***************************************************************************)
\* the service is not part of this specification
ApiIdle ==
    /\ cliOut = NoCli
    /\ model_obj = NoModel
    /\ artifact = <<>>
    /\ resp = NoResp
    /\ nReq = 0
    /\ loadCalls = 0
    /\ tmpfiles = {}
    /\ modelUrl = FALSE
    /\ pending = {}
    /\ calls = <<>>
    /\ lists = <<>>
    /\ PrepIdle

Idle == /\ layer = 0 /\ cur = <<>> /\ len0 = 0 /\ fault = NoFault
        /\ logits = <<0, 0>> /\ verdict = NoVerdict
        /\ ApiIdle

Init ==
    /\ Xs \in Collections
    /\ Xin = Xs
    /\ pc = "ready"
    /\ err = NoError
    /\ out = NoOut
    /\ Idle

CallReformat ==
    /\ pc = "ready"
    /\ LET r == reformat(Xs)
       IN /\ Xs' = r.Xs
          /\ err' = r.err
          /\ pc' = IF r.err = NoError THEN "reformatted" ELSE "reformat_raised"
    /\ UNCHANGED <<Xin, out, layer, cur, len0, fault, logits, verdict>>
    /\ UNCHANGED apiVars

\* reformat called again on the collection it has normalized
CallReformatAgain ==
    /\ pc = "reformatted"
    /\ LET r == reformat(Xs)
       IN /\ Xs' = r.Xs
          /\ err' = r.err
          /\ pc' = IF r.err = NoError THEN "reformatted_again"
                   ELSE "reformat_again_raised"
    /\ UNCHANGED <<Xin, out, layer, cur, len0, fault, logits, verdict>>
    /\ UNCHANGED apiVars

CallForward ==
    /\ pc \in {"ready", "reformatted"}
    /\ LET r == get_scores(Xs)
       IN /\ out' = r.out
          /\ err' = r.err
          /\ pc' = IF r.err = NoError THEN "scored" ELSE "forward_raised"
    /\ UNCHANGED <<Xs, Xin, layer, cur, len0, fault, logits, verdict>>
    /\ UNCHANGED apiVars

\* the failures the library can raise inside self.tcn / self.mlp whatever
\* the shapes are: a pooling failure, another RuntimeError, another error
StackFaults ==
    { Raise("RuntimeError", "max_pool1d: Invalid computed output size", <<>>,
            NoIndex),
      Raise("RuntimeError", "out of memory", <<>>, NoIndex),
      Raise("TypeError", "max_pool1d: Invalid computed output size", <<>>,
            NoIndex) }

\* the entries forward reaches before entry k: each passes the length
\* check of lines 78-85 and the stack
Reaches(xs, k) ==
    /\ \A j \in 1..k : Dim(xs[j]) = 3 /\ xs[j].shape[3] = FORWARD_LENGTH
    /\ \A j \in 1..(k - 1) : ForwardEntry(xs[j], j - 1).err = NoError

\* forward, lines 72-103, when the library raises e inside the try block
\* for the entry at the 0-based index of fault: lines 94-101 re-raise
CallForwardStackRaises ==
    /\ pc \in {"ready", "reformatted"}
    /\ \E k \in DOMAIN Xs, e \in StackFaults :
         /\ Reaches(Xs, k)
         /\ fault' = [index |-> k - 1, error |-> e]
         /\ err' = Reraise(e, Xs[k], k - 1)
    /\ out' = NoOut
    /\ pc' = "stack_raised"
    /\ UNCHANGED <<Xs, Xin, layer, cur, len0, logits, verdict>>
    /\ UNCHANGED apiVars

CallForwardWoGpool ==
    /\ pc \in {"ready", "reformatted"}
    /\ LET r == forward_wo_gpool(Xs)
       IN /\ out' = r.out
          /\ err' = r.err
          /\ pc' = IF r.err = NoError THEN "maps_returned"
                   ELSE "wo_gpool_raised"
    /\ UNCHANGED <<Xs, Xin, layer, cur, len0, fault, logits, verdict>>
    /\ UNCHANGED apiVars

Next ==
    CallReformat \/ CallForward \/ CallForwardStackRaises
    \/ CallForwardWoGpool \/ CallReformatAgain

Spec == Init /\ [][Next]_vars

(***************************************************************************)
(* Specification of one pass of an activation through TCN.tcn, layer by     *)
(* layer                                                                    *)
(***************************************************************************)
InitStack ==
    /\ len0 \in StackLens
    /\ cur = <<1, NUM_CEP, len0>>
    /\ layer = 0
    /\ err = NoError
    /\ pc = "stack"
    /\ Xs = <<>> /\ Xin = <<>> /\ out = NoOut
    /\ logits = <<0, 0>> /\ verdict = NoVerdict
    /\ fault = NoFault
    /\ ApiIdle

ApplyNextLayer ==
    /\ pc = "stack"
    /\ err = NoError
    /\ layer < Len(TcnLayers)
    /\ LET r == ApplyLayer(TcnLayers[layer + 1], cur)
       IN /\ cur' = r.shape
          /\ err' = r.err
          /\ layer' = IF r.err = NoError THEN layer + 1 ELSE layer
    /\ UNCHANGED <<Xs, Xin, pc, out, len0, fault, logits, verdict>>
    /\ UNCHANGED apiVars

NextStack == ApplyNextLayer

SpecStack == InitStack /\ [][NextStack]_vars

(***************************************************************************)
(* Specification of the score interpreter                                   *)
(***************************************************************************)
InitInterp ==
    /\ logits \in LogitPairs
    /\ verdict = NoVerdict
    /\ pc = "scores"
    /\ err = NoError
    /\ Xs = <<>> /\ Xin = <<>> /\ out = NoOut
    /\ layer = 0 /\ cur = <<>> /\ len0 = 0 /\ fault = NoFault
    /\ ApiIdle

\* api.predict_voice_from_audio, lines 278-309, on the logit pair
InterpretScores ==
    /\ pc = "scores"
    /\ verdict' = Interpret(Softmax(logits))
    /\ pc' = "interpreted"
    /\ UNCHANGED <<Xs, Xin, err, out, layer, cur, len0, fault, logits>>
    /\ UNCHANGED apiVars

\* test_voice.predict_voice, lines 132-156, on the same logit pair
PredictVoiceScores ==
    /\ pc \in {"scores", "interpreted"}
    /\ cliOut = NoCli
    /\ cliOut' = PredictVoiceInterpret(Softmax(logits))
    /\ UNCHANGED <<Xs, Xin, pc, err, out, layer, cur, len0, fault, logits, verdict>>
    /\ UNCHANGED <<model_obj, artifact, resp, nReq, loadCalls, tmpfiles,
                   modelUrl, pending, calls, lists>>
    /\ UNCHANGED prepVars

NextInterp == InterpretScores \/ PredictVoiceScores

SpecInterp == InitInterp /\ [][NextInterp]_vars

(***************************************************************************)
(* Specification of the service: startup, then requests one at a time      *)
(***************************************************************************)
\* the number of requests the service handles
MaxReqs == 2

Exts == {".wav", ".txt"}

\* line 374
allowed_extensions == {".mp3", ".wav", ".flac", ".m4a", ".ogg", ".aac"}

\* line 377, on a suffix in lower case
AllowedExt(ext) == ext \in allowed_extensions

\* what `await file.read()` gives POST /predict: the body, or an error.
\* buffered: the body is no longer than the buffer of the temporary file,
\* so tmp_file.write leaves it in the buffer
UploadBodies == [readOk : BOOLEAN, buffered : BOOLEAN, audio : Audios]

\* what fetching the URL does, lines 461-487: the file arrives, the server
\* answers with an HTTP error code (HTTPError), the URL cannot be reached
\* (URLError), the URL is not one urllib.request.Request takes (ValueError
\* at line 465), the connection stalls or breaks while the body is read
\* (TimeoutError at line 487), or NamedTemporaryFile itself fails (OSError
\* at line 461, before the try statement)
Downloads == {"ok", "401", "403", "404", "410", "unreachable", "bad_url",
              "timeout", "no_tmpfile"}

\* the outcomes that leave line 461 with a temporary file
TmpFileMade(d) == d # "no_tmpfile"

UrlReqs == [download : Downloads, audio : Audios]

\* lines 387-391 and 454-458
ModelUnavailable(e) ==
    [NoResp EXCEPT !.status = 503, !.detail = e,
                   !.wrap = <<"Model not available">>]

\* lines 461-524: the response to a download that did not deliver the file.
\* HTTPError is answered at lines 494-514, URLError at 515-519, any other
\* exception of the try block at 520-524; the OSError of line 461 is raised
\* outside the try statement and leaves the handler as it is, which the
\* server answers with status 500
DownloadFailed(d) ==
    LET e == Raise("HTTPError", d, <<>>, NoIndex)
    IN CASE d = "401" -> [NoResp EXCEPT !.status = 401, !.detail = e]
         [] d = "403" -> [NoResp EXCEPT !.status = 403, !.detail = e]
         [] d = "404" -> [NoResp EXCEPT !.status = 404, !.detail = e]
         [] d = "410" -> [NoResp EXCEPT !.status = 500, !.detail = e,
                                        !.wrap = <<"Error downloading file">>]
         [] d = "unreachable" ->
                [NoResp EXCEPT !.status = 500,
                               !.detail = Raise("URLError", d, <<>>, NoIndex),
                               !.wrap = <<"Error accessing URL">>]
         [] d = "bad_url" ->
                [NoResp EXCEPT !.status = 500,
                               !.detail = Raise("ValueError",
                                                "unknown url type", <<>>,
                                                NoIndex),
                               !.wrap = <<"Error processing file from URL">>]
         [] d = "timeout" ->
                [NoResp EXCEPT !.status = 500,
                               !.detail = Raise("TimeoutError", "timed out",
                                                <<>>, NoIndex),
                               !.wrap = <<"Error processing file from URL">>]
         [] OTHER -> [NoResp EXCEPT !.status = 500,
                                    !.detail = Raise("OSError", d, <<>>,
                                                     NoIndex)]

\* what the handler of request n did, added to the response it gives:
\* found tells whether model_obj was loaded when the request arrived,
\* attempts and failed what its lazy load did
Mark(r, handler, n, found, attempts, failed, tmp) ==
    [r EXCEPT !.handler = handler,
              !.n = n,
              !.found = found,
              !.loadAttempts = attempts,
              !.loadFailed = failed,
              !.tmpCreated = tmp]

\* how a handler ends: its response, the global model_obj, the calls of
\* load_model it made, whether its temporary file is left behind and
\* whether load_model left its own
Ends(r, model, lo, leak) ==
    [resp |-> r, model |-> model, attempts |-> lo.attempts, leak |-> leak,
     modelTmp |-> lo.tmp, awaits |-> FALSE]

\* POST /predict, lines 352-397, on request n: the handler ends with 400
\* or 503, or it creates its temporary file and waits at
\* `await file.read()`
predict(m, ext, lo, n) ==
    IF ~AllowedExt(ext)
    THEN [resp |-> [NoResp EXCEPT !.handler = "predict", !.n = n,
                                  !.status = 400, !.found = (m # NoModel)],
          model |-> m, attempts |-> 0, leak |-> FALSE, modelTmp |-> FALSE,
          awaits |-> FALSE]
    ELSE IF lo.err # NoError
    THEN Ends(Mark(ModelUnavailable(lo.err), "predict", n, m # NoModel,
                   lo.attempts, TRUE, FALSE),
              lo.model, lo, FALSE)
    ELSE [resp |-> NoResp, model |-> lo.model, attempts |-> lo.attempts,
          leak |-> TRUE, modelTmp |-> lo.tmp, awaits |-> TRUE]

\* the request as it waits: its number and what its handler did before
\* the await
Waiting(m, lo, n) ==
    [n |-> n, found |-> (m # NoModel), attempts |-> lo.attempts]

\* the file predict_voice_from_audio finds under the name of the temporary
\* file: tmp_file is neither flushed nor closed when the file is opened by
\* name (lines 398-402), so a buffered body is not on disk yet
EmptyFile ==
    [id |-> "empty", readable |-> FALSE, extractable |-> FALSE,
     features |-> NoTensor]

OnDisk(body) == IF body.buffered THEN EmptyFile ELSE body.audio

\* lines 397-416, when file.read() has ended for the waiting request w and,
\* where it gave the body, predict_voice_from_audio has given core
Uploaded(m, w, body, core) ==
    IF ~body.readOk
    THEN \* file.read() raises before tmp_file_path is bound: the finally
         \* clause raises UnboundLocalError and the file stays
         [resp |-> Mark([NoResp EXCEPT
                           !.status = 500,
                           !.detail = Raise("UnboundLocalError",
                                            "tmp_file_path", <<>>, NoIndex)],
                        "predict", w.n, w.found, w.attempts, FALSE, TRUE),
          model |-> m, leak |-> TRUE]
    ELSE [resp |-> Mark(core.resp, "predict", w.n, w.found, w.attempts,
                        FALSE, TRUE),
          model |-> core.model, leak |-> FALSE]

\* line 520: except Exception also catches the HTTPException of
\* predict_voice_from_audio and wraps it again, with status 500
Rewrapped(r) ==
    IF r.status = 200 THEN r
    ELSE [r EXCEPT !.status = 500,
                   !.wrap = <<"Error processing file from URL">> \o r.wrap]

\* POST /predict/url, lines 419-528, on request n
predict_from_url(m, req, lo, core, n) ==
    IF lo.err # NoError
    THEN Ends(Mark(ModelUnavailable(lo.err), "predict_from_url", n,
                   m # NoModel, lo.attempts, TRUE, FALSE),
              lo.model, lo, FALSE)
    ELSE IF req.download # "ok"
    THEN Ends(Mark(DownloadFailed(req.download), "predict_from_url", n,
                   m # NoModel, lo.attempts, FALSE,
                   TmpFileMade(req.download)),
              lo.model, lo, FALSE)
    ELSE Ends(Mark(Rewrapped(core.resp), "predict_from_url", n, m # NoModel,
                   lo.attempts, FALSE, TRUE),
              core.model, lo, FALSE)

TcnIdle ==
    /\ Xs = <<>> /\ Xin = <<>> /\ out = NoOut /\ err = NoError
    /\ layer = 0 /\ cur = <<>> /\ len0 = 0 /\ fault = NoFault
    /\ logits = <<0, 0>> /\ verdict = NoVerdict
    /\ cliOut = NoCli /\ calls = <<>> /\ lists = <<>>
    /\ PrepIdle

tcnVars == <<Xs, Xin, out, err, layer, cur, len0, fault, logits, verdict, cliOut,
             calls, lists, dirs, disk, ret>>

InitApi ==
    /\ pc = "boot"
    /\ model_obj = NoModel
    /\ artifact \in Artifacts
    /\ modelUrl \in BOOLEAN
    /\ resp = NoResp
    /\ nReq = 0
    /\ loadCalls = 0
    /\ tmpfiles = {}
    /\ pending = {}
    /\ TcnIdle

\* the temporary file the k-th call of load_model leaves, where it does
ModelFile(tmp, k) == IF tmp THEN {<<"model", k>>} ELSE {}

\* the temporary file of request n, where it is left
AudioFile(leak, n) == IF leak THEN {<<"audio", n>>} ELSE {}

\* startup_event, lines 315-322: the failure of load_model is swallowed
Startup ==
    /\ pc = "boot"
    /\ \E failAt \in LoadFailuresWith(modelUrl), saved \in BOOLEAN :
         LET lo == LoadModel(model_obj, loadCalls + 1, failAt, saved,
                             modelUrl)
         IN /\ model_obj' = lo.model
            /\ tmpfiles' = tmpfiles \cup ModelFile(lo.tmp, loadCalls + 1)
            /\ resp' = [NoResp EXCEPT !.handler = "startup",
                                      !.loadAttempts = 1,
                                      !.loadFailed = (lo.err # NoError)]
    /\ loadCalls' = loadCalls + 1
    /\ pc' = "serving"
    /\ UNCHANGED <<artifact, nReq, modelUrl, pending>>
    /\ UNCHANGED tcnVars

\* GET /health, lines 342-349 (GET / reports the same flag, line 333)
HealthCheck ==
    /\ pc = "serving"
    /\ nReq < MaxReqs
    /\ resp' = [NoResp EXCEPT !.handler = "health_check", !.n = nReq + 1,
                              !.status = 200,
                              !.modelLoaded = (model_obj # NoModel),
                              !.found = (model_obj # NoModel)]
    /\ nReq' = nReq + 1
    /\ UNCHANGED <<pc, model_obj, artifact, loadCalls, tmpfiles, modelUrl,
                   pending>>
    /\ UNCHANGED tcnVars

\* the outcomes of load_model a handler can meet: none matter when the
\* handler does not call it
LoadOutcomes(m, url) ==
    IF NeedsLoad(m)
    THEN { <<f, sv>> \in LoadFailuresWith(url) \X BOOLEAN :
             f = "device" \/ sv }
    ELSE { <<"none", TRUE>> }

\* the logit pairs the weights in use can give where the artifact's are
\* not loaded
InitLogits(m) ==
    IF m.weights = "init" THEN ArtLogits ELSE { <<0, 0>> }

\* the handler of a new request has run up to its end or up to its await
Handled(r) ==
    /\ model_obj' = r.model
    /\ loadCalls' = loadCalls + r.attempts
    /\ tmpfiles' = tmpfiles \cup AudioFile(r.leak, nReq + 1)
                            \cup ModelFile(r.modelTmp, loadCalls + 1)
    /\ nReq' = nReq + 1
    /\ UNCHANGED <<pc, artifact, modelUrl>>
    /\ UNCHANGED tcnVars

\* POST /predict arrives: the handler finds model_obj, loads it if it
\* must, and either answers or creates its temporary file and waits for
\* the body
PredictWith(ext, lo) ==
    /\ Handled(predict(model_obj, ext, lo, nReq + 1))
    /\ IF predict(model_obj, ext, lo, nReq + 1).awaits
       THEN /\ pending' = pending \cup {Waiting(model_obj, lo, nReq + 1)}
            /\ resp' = resp
       ELSE /\ pending' = pending
            /\ resp' = predict(model_obj, ext, lo, nReq + 1).resp

Predict ==
    /\ pc = "serving"
    /\ nReq < MaxReqs
    /\ \E ext \in Exts, o \in LoadOutcomes(model_obj, modelUrl) :
         PredictWith(ext, LazyLoad(model_obj, loadCalls + 1, o[1], o[2],
                                   modelUrl))

\* the handler of the waiting request w goes on after the await
PredictResumeWith(w, r) ==
    /\ resp' = r.resp
    /\ model_obj' = r.model
    /\ tmpfiles' = IF r.leak THEN tmpfiles ELSE tmpfiles \ {<<"audio", w.n>>}
    /\ pending' = pending \ {w}

\* file.read() has ended for a waiting /predict request: the handler
\* analyses the temporary file, answers and removes the file
PredictResume ==
    /\ pc = "serving"
    /\ \E w \in pending, body \in UploadBodies,
          initL \in InitLogits(model_obj) :
         PredictResumeWith(w, Uploaded(model_obj, w, body,
                                       predict_voice_from_audio(
                                           model_obj, artifact, initL,
                                           OnDisk(body))))
    /\ UNCHANGED <<pc, artifact, nReq, loadCalls, modelUrl>>
    /\ UNCHANGED tcnVars

PredictFromUrlWith(req, lo, initL) ==
    /\ Handled(predict_from_url(model_obj, req, lo,
                                predict_voice_from_audio(lo.model, artifact,
                                                         initL, req.audio),
                                nReq + 1))
    /\ resp' = predict_from_url(model_obj, req, lo,
                                predict_voice_from_audio(lo.model, artifact,
                                                         initL, req.audio),
                                nReq + 1).resp
    /\ pending' = pending

PredictFromUrl ==
    /\ pc = "serving"
    /\ nReq < MaxReqs
    /\ \E req \in UrlReqs, o \in LoadOutcomes(model_obj, modelUrl),
          initL \in InitLogits(model_obj) :
         PredictFromUrlWith(req,
                            LazyLoad(model_obj, loadCalls + 1, o[1], o[2],
                                     modelUrl),
                            initL)

\* the call made on its own ends with the response of the call
Direct(core, m, n) ==
    [resp |-> [core.resp EXCEPT !.handler = "predict_voice_from_audio",
                                !.n = n,
                                !.found = (m # NoModel)],
     model |-> core.model, attempts |-> 0, leak |-> FALSE,
     modelTmp |-> FALSE, awaits |-> FALSE]

DirectWith(r) ==
    /\ Handled(r)
    /\ resp' = r.resp
    /\ pending' = pending

\* predict_voice_from_audio called on its own, lines 227-312
CallPredictVoiceFromAudio ==
    /\ pc = "serving"
    /\ nReq < MaxReqs
    /\ \E audio \in Audios, initL \in InitLogits(model_obj) :
         DirectWith(Direct(predict_voice_from_audio(model_obj, artifact,
                                                    initL, audio),
                           model_obj, nReq + 1))

NextApi ==
    \/ Startup
    \/ HealthCheck
    \/ Predict
    \/ PredictResume
    \/ PredictFromUrl
    \/ CallPredictVoiceFromAudio

SpecApi == InitApi /\ [][NextApi]_vars

(***************************************************************************)
(* The dataset scripts: convert_all_data.main and                          *)
(* auto_convert_audio.auto_convert_directory                               *)
(***************************************************************************)
\* MFCC_Extractor(samplerate=16000, winlen=0.025, winstep=0.01, numcep=13,
\* nfilt=26) as each place in the repository constructs it; the window and
\* the hop are in milliseconds.  No caller passes further keyword
\* arguments (mfcc_kwargs is empty on every call path).
\* api.py, lines 249-256
ApiExtractor ==
    [samplerate |-> 16000, winlen |-> 25, winstep |-> 10, numcep |-> 13,
     nfilt |-> 26]

\* test_voice.py, lines 62-69
TestVoiceExtractor ==
    [samplerate |-> 16000, winlen |-> 25, winstep |-> 10, numcep |-> 13,
     nfilt |-> 26]

\* preprocess_audio.py, lines 101-109
PreprocessExtractor ==
    [samplerate |-> 16000, winlen |-> 25, winstep |-> 10, numcep |-> 13,
     nfilt |-> 26]

AutoConvertFallbackExtractor40 ==
    [samplerate |-> 16000, winlen |-> 25, winstep |-> 10, numcep |-> 13,
     nfilt |-> 40]
\* auto_convert_audio.py, lines 56-59
AutoConvertFallbackExtractor ==
    [samplerate |-> 16000, winlen |-> 25, winstep |-> 10, numcep |-> 13,
     nfilt |-> 26]

\* convert_all_data.py, lines 55-58
ConvertAllFallbackExtractor ==
    [samplerate |-> 16000, winlen |-> 25, winstep |-> 10, numcep |-> 13,
     nfilt |-> 26]

\* the extractor of the audio_to_mfcc a script uses: the one imported from
\* preprocess_audio, or the script's own when the import fails
AudioToMfccExtractor(script, importOk) ==
    IF importOk THEN PreprocessExtractor
    ELSE IF script = "auto_convert_audio" THEN AutoConvertFallbackExtractor
    ELSE ConvertAllFallbackExtractor

\* Python dict.update
Update(a, b) ==
    [k \in DOMAIN a \cup DOMAIN b |-> IF k \in DOMAIN b THEN b[k] ELSE a[k]]

\* the empty dict
EmptyDict == [k \in {} |-> <<>>]

\* sorted(files): the audio files of one person in the order of their names
RECURSIVE Sorted(_)
Sorted(files) ==
    IF files = {} THEN <<>>
    ELSE LET f == CHOOSE g \in files : \A h \in files : g.n <= h.n
         IN <<f>> \o Sorted(files \ {f})

\* the elements of a list
Elements(list) == {list[i] : i \in DOMAIN list}

\* the orders in which a set can be iterated
RECURSIVE Orders(_)
Orders(S) ==
    IF S = {} THEN {<<>>}
    ELSE UNION { { <<x>> \o o : o \in Orders(S \ {x}) } : x \in S }

\* the orders in which the loops over the extensions and over rglob can
\* yield the files of a directory, person by person: the files of one
\* person come in an order that does not depend on the order of another's
\* (a .mp3 file comes before a .wav file whatever their names)
FoundOrders(files) ==
    LET persons == {f.person : f \in files}
        of(p) == {f \in files : f.person = p}
    IN { found \in [persons -> UNION {Orders(of(p)) : p \in persons}] :
           \A p \in persons : found[p] \in Orders(of(p)) }

\* convert_all_data.find_audio_files_by_person, lines 68-100, on a
\* directory whose audio files all lie in the folder of their person and
\* are found in the order found: the files grouped by folder name, each
\* list in the order found
find_audio_files_by_person(files, found) ==
    [p \in {f.person : f \in files} |-> found[p]]

\* auto_convert_audio.find_audio_files_by_person, lines 69-105: the same,
\* with the files of each person sorted (lines 101-103)
find_audio_files_by_person_sorted(files, found) ==
    [p \in {f.person : f \in files} |-> Sorted(Elements(found[p]))]

\* the names of the two directories: the defaults of convert_all_data.py,
\* lines 284-287
DirName(d) == IF d = "dementia" THEN "data" ELSE "nodementia"

\* convert_all_data.py, lines 288-291: the defaults of --output-dir and
\* --csv-output, and lines 371-372: the two task files
ConvertAllOutputDir == "data/mfcc_features"
ConvertAllCsvOutput == "data/csv_files/dataset.csv"
ConvertAllTaskFiles == <<"data/csv_files/task_csvs.txt", "csv_files/task_csvs.txt">>

\* auto_convert_directory, lines 239-257: the places derived from input_dir,
\* main passing neither --output-dir nor --csv-output
AutoOutputDir(d) ==
    IF DirName(d) = "data" THEN "data/mfcc_features" ELSE "mfcc_features"

AutoCsvOutput(d) ==
    IF DirName(d) = "data" THEN "data/csv_files/dataset.csv"
    ELSE "csv_files/dataset.csv"

\* lines 310-325: csv_output.parent / 'task_csvs.txt', then
\* input_dir.parent / 'csv_files' / 'task_csvs.txt'
AutoTaskFiles(d) ==
    IF DirName(d) = "data"
    THEN <<"data/csv_files/task_csvs.txt", "csv_files/task_csvs.txt">>
    ELSE <<"csv_files/task_csvs.txt", "csv_files/task_csvs.txt">>

\* output_dir / person_name / stem.npy
OutPath(output_dir, person, n) == <<output_dir, person, n>>

\* the .npy files one pass over the files of directory d writes
Written(d, files, cfg, output_dir) ==
    [path \in {OutPath(output_dir, f.person, f.n) : f \in {g \in files : g.ok}}
       |->
       LET f == CHOOSE g \in files :
                  g.ok /\ OutPath(output_dir, g.person, g.n) = path
       IN [source |-> <<d, f.person, f.n>>, config |-> cfg]]

\* convert_all_data.process_directory, lines 201-253: every file, in
\* sorted order (line 245), paired with the path of its .npy file, or with
\* None where the conversion failed
process_directory(d, files, output_dir, found) ==
    LET person_files == find_audio_files_by_person(files, found)
    IN [p \in DOMAIN person_files |->
          LET audio_files == Sorted(Elements(person_files[p]))
          IN [i \in DOMAIN audio_files |->
                [audio |-> <<d, p, audio_files[i].n>>,
                 mfcc |-> IF audio_files[i].ok
                          THEN OutPath(output_dir, p, audio_files[i].n)
                          ELSE None]]]

\* convert_all_data.main, line 356:
\* normal_data[f"{name}_normal"] = normal_data.pop(name)
Rename(nd, name) ==
    LET new == name \o "_normal"
    IN [k \in (DOMAIN nd \ {name}) \cup {new} |->
          IF k = new THEN nd[name] ELSE nd[k]]

\* lines 355-356: the loop over the conflicts, in the order it takes them
RECURSIVE RenameAll(_, _)
RenameAll(nd, order) ==
    IF order = <<>> THEN nd
    ELSE RenameAll(Rename(nd, Head(order)), Tail(order))

\* the entries of a file list whose conversion succeeded
Converted(files_list) == SelectSeq(files_list, LAMBDA e : e.mfcc # None)

\* labels.get(person_name, label) if labels else label
LabelOf(labels, p, label) == IF p \in DOMAIN labels THEN labels[p] ELSE label

\* the csv-file rows of generate_csv_from_persons: one for each person
\* with a converted file, under the person's name; the audio files of the
\* row are kept beside the paths of their .npy files
Rows(person_data, labels, label) ==
    [p \in {q \in DOMAIN person_data : Converted(person_data[q]) # <<>>} |->
       [person_name |-> p,
        is_demented_at_recording |-> LabelOf(labels, p, label),
        mfcc_npy_files |-> [i \in DOMAIN Converted(person_data[p]) |->
                              Converted(person_data[p])[i].mfcc],
        audio |-> [i \in DOMAIN Converted(person_data[p]) |->
                     Converted(person_data[p])[i].audio]]]

\* convert_all_data.main, lines 345-365, on the data of the two
\* directories: the dict handed to generate_csv_from_persons and the labels
Combined(dementia_data, normal_data, order) ==
    LET renamed == RenameAll(normal_data, order)
    IN [all_person_data |-> Update(dementia_data, renamed),
        labels_dict |-> Update([k \in DOMAIN dementia_data |-> 1],
                               [k \in DOMAIN renamed |-> 0])]

\* the files written after the conversions: the csv file where there are
\* rows, then the task files where writeTasks holds
WriteCsvAndTasks(d0, mfcc, rows, writeTasks, csv_output, task_files) ==
    [mfcc |-> mfcc,
     csv |-> IF DOMAIN rows # {}
             THEN Update(d0.csv, [k \in {csv_output} |-> rows])
             ELSE d0.csv,
     tasks |-> IF writeTasks THEN d0.tasks \cup Elements(task_files)
               ELSE d0.tasks,
     log |-> d0.log \o (IF DOMAIN rows # {} THEN <<"csv">> ELSE <<>>)
                   \o (IF writeTasks THEN <<"task", "task">> ELSE <<>>)]

\* convert_all_data.main, lines 367-376, after the two directories have
\* been processed: the csv file, then the two task files, whether or not
\* the csv file was written
ConvertAllWrites(d0, ls, cfg, c) ==
    WriteCsvAndTasks(d0,
                     Update(Update(d0.mfcc,
                                   Written("dementia", ls.dementia, cfg,
                                           ConvertAllOutputDir)),
                            Written("normal", ls.normal, cfg,
                                    ConvertAllOutputDir)),
                     Rows(c.all_person_data, c.labels_dict, 0),
                     TRUE, ConvertAllCsvOutput, ConvertAllTaskFiles)

\* auto_convert_audio.convert_audio_to_mfcc, lines 108-130, on the files of
\* directory d: an existing .npy file is kept unless overwrite is set
KeptFiles(d0, d, files, overwrite) ==
    {f \in files : /\ OutPath(AutoOutputDir(d), f.person, f.n) \in DOMAIN d0.mfcc
                   /\ ~overwrite}

\* lines 280-295 of auto_convert_directory: every file of the directory
\* paired with the path of its .npy file, or with None
AutoConverted(d, files, kept, found) ==
    LET person_files == find_audio_files_by_person_sorted(files, found)
    IN [p \in DOMAIN person_files |->
          [i \in DOMAIN person_files[p] |->
             [audio |-> <<d, p, person_files[p][i].n>>,
              mfcc |-> IF person_files[p][i] \in kept \/ person_files[p][i].ok
                       THEN OutPath(AutoOutputDir(d), p,
                                    person_files[p][i].n)
                       ELSE None]]]

TasksAlways(rows) == TRUE
\* lines 304-326: the task files are written when the csv file was
TasksAfterCsv(rows) == DOMAIN rows # {}

\* auto_convert_directory, lines 264-338, after the search of the files
AutoConvertWrites(d0, d, files, kept, cfg, rows) ==
    WriteCsvAndTasks(d0,
                     Update(d0.mfcc,
                            Written(d, files \ kept, cfg, AutoOutputDir(d))),
                     rows,
                     TasksAfterCsv(rows), AutoCsvOutput(d), AutoTaskFiles(d))

\* what auto_convert_directory returns
AutoConvertReturns(rows, d) ==
    IF TasksAfterCsv(rows) THEN <<AutoCsvOutput(d), AutoTaskFiles(d)[1]>>
    ELSE <<None, None>>

(***************************************************************************)
(* Specification of the dataset scripts run from the shell                 *)
(***************************************************************************)
\* the number of persons with audio files under one directory
MaxPersons == 2

\* the number of times a script is run
MaxRuns == 2

PersonNames == {"ann", "ann_normal", "bob"}

\* the audio files of one person: numbered, each converting or failing
Recordings ==
    { {[n |-> 1, ok |-> FALSE]},
      {[n |-> 1, ok |-> TRUE], [n |-> 2, ok |-> FALSE]} }

\* the audio files a directory can hold
Listings ==
    UNION { { UNION { { [person |-> p, n |-> r.n, ok |-> r.ok] : r \in rec[p] }
                      : p \in P }
              : rec \in [P -> Recordings] }
            : P \in { Q \in SUBSET PersonNames : Cardinality(Q) <= MaxPersons } }

InitPrep ==
    /\ pc = "shell"
    /\ dirs \in [dementia : Listings, normal : Listings]
    /\ disk = NoDisk
    /\ ret = NoRet
    /\ Xs = <<>> /\ Xin = <<>> /\ out = NoOut /\ err = NoError
    /\ layer = 0 /\ cur = <<>> /\ len0 = 0 /\ fault = NoFault
    /\ logits = <<0, 0>> /\ verdict = NoVerdict
    /\ cliOut = NoCli /\ calls = <<>> /\ lists = <<>>
    /\ model_obj = NoModel /\ artifact = <<>> /\ resp = NoResp
    /\ nReq = 0 /\ loadCalls = 0 /\ tmpfiles = {}
    /\ modelUrl = FALSE /\ pending = {}

prepFrame ==
    <<Xs, Xin, pc, err, out, layer, cur, len0, fault, logits, verdict, cliOut,
      model_obj, artifact, resp, nReq, loadCalls, tmpfiles, modelUrl, pending,
      calls, lists, dirs>>

\* python convert_all_data.py, without --skip-conversion
ConvertAllDataWith(dd, nd, importOk, order) ==
    /\ disk' = ConvertAllWrites(disk, dirs,
                                AudioToMfccExtractor("convert_all_data",
                                                     importOk),
                                Combined(dd, nd, order))
    /\ ret' = [script |-> "convert_all_data", input |-> "both",
               value |-> <<>>, run |-> ret.run + 1, importOk |-> importOk]

ConvertAllData ==
    /\ pc = "shell"
    /\ ret.run < MaxRuns
    /\ \E importOk \in BOOLEAN,
          fd \in FoundOrders(dirs.dementia),
          fn \in FoundOrders(dirs.normal) :
         \E order \in Orders({f.person : f \in dirs.dementia}
                             \cap {f.person : f \in dirs.normal}) :
           ConvertAllDataWith(process_directory("dementia", dirs.dementia,
                                                ConvertAllOutputDir, fd),
                              process_directory("normal", dirs.normal,
                                                ConvertAllOutputDir, fn),
                              importOk, order)
    /\ UNCHANGED prepFrame

AutoConvertWith(d, kept, importOk, rows) ==
    /\ disk' = IF dirs[d] = {} THEN disk
               ELSE AutoConvertWrites(disk, d, dirs[d], kept,
                                      AudioToMfccExtractor("auto_convert_audio",
                                                           importOk),
                                      rows)
    /\ ret' = [script |-> "auto_convert_audio", input |-> d,
               value |-> AutoConvertReturns(rows, d), run |-> ret.run + 1,
               importOk |-> importOk]

\* the values of the parameter labels of auto_convert_directory: None, as
\* main leaves it (lines 365-371), or a dict a caller passes
AutoLabels == {EmptyDict, [p \in {"ann"} |-> 1]}

\* auto_convert_directory(input_dir, overwrite=..., labels=...) on one of
\* the directories, as python auto_convert_audio.py calls it or called
\* directly
AutoConvertDirectory ==
    /\ pc = "shell"
    /\ ret.run < MaxRuns
    /\ \E d \in {"dementia", "normal"}, overwrite \in BOOLEAN,
          importOk \in BOOLEAN, labels \in AutoLabels :
         \E found \in FoundOrders(dirs[d]) :
           AutoConvertWith(d, KeptFiles(disk, d, dirs[d], overwrite), importOk,
                           Rows(AutoConverted(d, dirs[d],
                                              KeptFiles(disk, d, dirs[d],
                                                        overwrite),
                                              found),
                                labels, 0))
    /\ UNCHANGED prepFrame

\* the directories a caller of preprocess_audio gives for the .npy files
PreprocessRoots == {"data/mfcc_features", "mfcc_features"}

\* preprocess_audio.audio_to_mfcc, lines 80-127, on the files of folder
\* person of directory d, each with output path root/person/<stem>.npy:
\* the .npy files of those that can be loaded
PreprocessWrites(d0, d, files, root) ==
    [d0 EXCEPT !.mfcc = Update(d0.mfcc,
                               Written(d, files, PreprocessExtractor, root))]

\* what a run of preprocess_audio leaves in ret
PreprocessRet(d, value) ==
    [script |-> "preprocess_audio", input |-> d, value |-> value,
     run |-> ret.run + 1, importOk |-> TRUE]

\* audio_to_mfcc(audio_path, output_path) on one file, called directly or
\* by python preprocess_audio.py input output (line 191): it raises where
\* the file cannot be loaded and writes nothing then
AudioToMfccOn(d, f, root) ==
    /\ disk' = PreprocessWrites(disk, d, {f}, root)
    /\ ret' = PreprocessRet(d, IF f.ok THEN None ELSE "raised")

AudioToMfcc ==
    /\ pc = "shell"
    /\ ret.run < MaxRuns
    /\ \E d \in {"dementia", "normal"}, root \in PreprocessRoots :
         \E f \in dirs[d] : AudioToMfccOn(d, f, root)
    /\ UNCHANGED prepFrame

\* batch_process(input_dir, output_dir), lines 130-170, on the folder of
\* one person, called directly or by python preprocess_audio.py --batch
\* input output (line 189): every audio file lying in the folder itself is
\* converted, a failure is printed and the loop goes on (lines 164-168)
BatchProcessOn(d, person, root) ==
    /\ disk' = PreprocessWrites(disk, d, {f \in dirs[d] : f.person = person},
                                root)
    /\ ret' = PreprocessRet(d, None)

BatchProcess ==
    /\ pc = "shell"
    /\ ret.run < MaxRuns
    /\ \E d \in {"dementia", "normal"}, root \in PreprocessRoots :
         \E person \in {f.person : f \in dirs[d]} :
           BatchProcessOn(d, person, root)
    /\ UNCHANGED prepFrame

\* python preprocess_audio.py without both paths, lines 185-187: the help
\* is printed and the script exits with 1, nothing is written
PreprocessUsage ==
    /\ pc = "shell"
    /\ ret.run < MaxRuns
    /\ disk' = disk
    /\ ret' = PreprocessRet("none", "exit 1")
    /\ UNCHANGED prepFrame

NextPrep ==
    \/ ConvertAllData
    \/ AutoConvertDirectory
    \/ AudioToMfcc
    \/ BatchProcess
    \/ PreprocessUsage

SpecPrep == InitPrep /\ [][NextPrep]_vars

(***************************************************************************)
(* Specification of inference calls running at the same time against one   *)
(* loaded model.  Each call of predict_voice_from_audio advances by the    *)
(* steps of lines 243-309, and the steps of the calls interleave.          *)
(***************************************************************************)
\* the number of calls running at the same time
MaxCalls == 2

ListSlotShared(c) == 1
\* line 268: mfcc_list is a list the call creates for itself
ListSlot(c) == c

\* the recording whose normalised features the list holds, if any
Sources(xs) ==
    { a \in Audios : a.extractable /\ reformat(<<a.features>>).Xs = xs }

\* the call before its first step
NewCall(audio) ==
    [audio |-> audio, at |-> "start", scores |-> <<0, 0>>, resp |-> NoResp]

InitConc ==
    /\ pc = "serving"
    /\ model_obj = LoadModel(NoModel, 1, "none", TRUE, FALSE).model
    /\ artifact \in Artifacts
    /\ calls \in [1..MaxCalls -> {NewCall(a) : a \in Audios}]
    /\ lists = [c \in 1..MaxCalls |-> <<>>]
    /\ resp = NoResp
    /\ nReq = 0
    /\ loadCalls = 1
    /\ tmpfiles = {}
    /\ modelUrl = FALSE
    /\ pending = {}
    /\ Xs = <<>> /\ Xin = <<>> /\ out = NoOut /\ err = NoError
    /\ layer = 0 /\ cur = <<>> /\ len0 = 0 /\ fault = NoFault
    /\ logits = <<0, 0>> /\ verdict = NoVerdict
    /\ cliOut = NoCli
    /\ PrepIdle

concFrame ==
    <<Xs, Xin, pc, err, out, layer, cur, len0, fault, logits, verdict, cliOut,
      model_obj, artifact, resp, nReq, loadCalls, tmpfiles, modelUrl, pending,
      dirs, disk, ret>>

\* the call ends by raising HTTPException(500), lines 311-312
Fails(c, e) ==
    calls' = [calls EXCEPT ![c].at = "done",
                           ![c].resp = Http500("Error processing audio", e)]

\* lines 243-268: load the audio, extract the features, build the list
Extract(c) ==
    /\ calls[c].at = "start"
    /\ LET a == calls[c].audio
       IN IF ~a.readable
          THEN /\ Fails(c, Raise("Exception", "load_audio_file failed", <<>>,
                                 NoIndex))
               /\ UNCHANGED lists
          ELSE IF ~a.extractable
          THEN /\ Fails(c, Raise("Exception", "MFCC_Extractor failed", <<>>,
                                 NoIndex))
               /\ UNCHANGED lists
          ELSE /\ calls' = [calls EXCEPT ![c].at = "listed"]
               /\ lists' = [lists EXCEPT ![ListSlot(c)] = <<a.features>>]
    /\ UNCHANGED concFrame

\* line 272: reformat rewrites the entries of the list in place
Normalize(c) ==
    /\ calls[c].at = "listed"
    /\ LET r == reformat(lists[ListSlot(c)])
       IN /\ lists' = [lists EXCEPT ![ListSlot(c)] = r.Xs]
          /\ IF r.err # NoError THEN Fails(c, r.err)
             ELSE calls' = [calls EXCEPT ![c].at = "normalized"]
    /\ UNCHANGED concFrame

\* lines 276-277: get_scores reads the list and the weights
Classify(c) ==
    /\ calls[c].at = "normalized"
    /\ LET xs == lists[ListSlot(c)]
           r == get_scores(xs)
       IN IF r.err # NoError THEN Fails(c, r.err)
          ELSE \E a \in Sources(xs) :
                 calls' = [calls EXCEPT ![c].at = "classified",
                                        ![c].scores = artifact[a.id]]
    /\ UNCHANGED lists
    /\ UNCHANGED concFrame

\* lines 278-309: softmax, decision rule, result
InterpretCall(c) ==
    /\ calls[c].at = "classified"
    /\ calls' = [calls EXCEPT
                   ![c].at = "done",
                   ![c].resp = [NoResp EXCEPT
                                  !.status = 200,
                                  !.result = Interpret(Softmax(calls[c].scores))]]
    /\ UNCHANGED lists
    /\ UNCHANGED concFrame

NextConc ==
    \E c \in 1..MaxCalls :
      \/ Extract(c)
      \/ Normalize(c)
      \/ Classify(c)
      \/ InterpretCall(c)

SpecConc == InitConc /\ [][NextConc]_vars

(***************************************************************************)
(* Properties of TCN.reformat                                              *)
(***************************************************************************)
\* a feature matrix reformat accepts: two axes, one of them of length 13
Accepted(x) == Dim(x) = 2 /\ (x.shape[1] = 13 \/ x.shape[2] = 13)

\* reformat has been called and has returned or raised
ReformatCalled == pc \in {"reformatted", "reformat_raised"}

\* time length of an accepted matrix, as reformat reads it
TimeLen(x) == IF x.shape[1] = 13 THEN x.shape[2] ELSE x.shape[1]

\* value of an accepted matrix at channel c and time t
InAt(x, c, t) == IF x.shape[1] = 13 THEN At(x, <<c, t>>) ELSE At(x, <<t, c>>)

\* The cells (c, t) at which input x or output y is non-zero, and the cells
\* around the ends of the input and of the output.  Input and output are
\* both zero at every other cell, so a comparison over these cells is a
\* comparison over all 13 x 16384 cells.
Cells(x, y) ==
    {<<i[2], i[3]>> : i \in {j \in DOMAIN y.nz : Len(j) = 3}}
    \cup {IF x.shape[1] = 13 THEN i ELSE <<i[2], i[1]>> : i \in DOMAIN x.nz}
    \cup ({0, 12} \X {t \in {0, TimeLen(x) - 1, TimeLen(x), 16383} : t >= 0})

\* C1: after reformat on a collection of accepted matrices (two axes, one of
\* length 13, any time length), the call has not raised and every entry has
\* shape (1, 13, 16384).
C1_FixedShape ==
    (ReformatCalled /\ \A k \in DOMAIN Xin : Accepted(Xin[k]))
    => /\ pc = "reformatted"
       /\ \A k \in DOMAIN Xs : Xs[k].shape = <<1, 13, 16384>>

C1_Witness ==
    /\ pc = "reformatted"
    /\ Len(Xin) = 2
    /\ Xin[1].shape = <<0, 13>>
    /\ Xin[2].shape = <<13, 16385>>
    /\ Xs[1].shape = <<1, 13, 16384>>
    /\ Xs[2].shape = <<1, 13, 16384>>

\* C2 as stated: for a matrix of time length L <= 16384 the output equals
\* the input itself at times 0..L-1 and is zero from L on.
C2_PadKeepsInput ==
    pc = "reformatted" =>
      \A k \in DOMAIN Xin : TimeLen(Xin[k]) <= 16384 =>
        \A cell \in Cells(Xin[k], Xs[k]) :
          LET c == cell[1]
              t == cell[2]
          IN At(Xs[k], <<0, c, t>>) =
                (IF t < TimeLen(Xin[k]) THEN InAt(Xin[k], c, t) ELSE 0)

\* C2 amended: for a matrix of time length L <= 16384 the output equals, at
\* times 0..L-1, the input converted to 32-bit floating point, and is zero
\* from L on: padding is appended at the end only.
C2_PadKeepsFloat32Input ==
    pc = "reformatted" =>
      \A k \in DOMAIN Xin : TimeLen(Xin[k]) <= 16384 =>
        /\ DOMAIN Xs[k].nz \subseteq {0} \X (0..12) \X (0..16383)
        /\ \A cell \in Cells(Xin[k], Xs[k]) :
             LET c == cell[1]
                 t == cell[2]
             IN At(Xs[k], <<0, c, t>>) =
                  (IF t < TimeLen(Xin[k]) THEN RoundF32(InAt(Xin[k], c, t)) ELSE 0)

C2_Witness ==
    /\ pc = "reformatted"
    /\ Len(Xin) >= 1
    /\ Xin[1].shape = <<16383, 13>>
    /\ At(Xin[1], <<16382, 12>>) # 0
    /\ At(Xs[1], <<0, 12, 16382>>) = At(Xin[1], <<16382, 12>>)
    /\ At(Xs[1], <<0, 12, 16383>>) = 0

\* C3 as stated: for a matrix of time length L > 16384 the output equals
\* the first 16384 time columns of the input itself.
C3_TruncateKeepsInput ==
    pc = "reformatted" =>
      \A k \in DOMAIN Xin : TimeLen(Xin[k]) > 16384 =>
        \A cell \in Cells(Xin[k], Xs[k]) :
          cell[2] < 16384 =>
            At(Xs[k], <<0, cell[1], cell[2]>>) = InAt(Xin[k], cell[1], cell[2])

\* C3 amended: for a matrix of time length L > 16384 the output equals the
\* first 16384 time columns of the input converted to 32-bit floating
\* point; the columns from 16384 on are discarded.
C3_TruncateKeepsFloat32Input ==
    pc = "reformatted" =>
      \A k \in DOMAIN Xin : TimeLen(Xin[k]) > 16384 =>
        /\ DOMAIN Xs[k].nz \subseteq {0} \X (0..12) \X (0..16383)
        /\ \A cell \in Cells(Xin[k], Xs[k]) :
             cell[2] < 16384 =>
               At(Xs[k], <<0, cell[1], cell[2]>>) =
                  RoundF32(InAt(Xin[k], cell[1], cell[2]))

C3_Witness ==
    /\ pc = "reformatted"
    /\ Len(Xin) >= 1
    /\ Xin[1].shape = <<13, 16385>>
    /\ At(Xin[1], <<12, 16384>>) # 0
    /\ At(Xin[1], <<12, 16383>>) # 0
    /\ At(Xs[1], <<0, 12, 16383>>) = At(Xin[1], <<12, 16383>>)
    /\ Xs[1].shape[3] = 16384

\* b is the matrix a with rows and columns exchanged
IsTransposeOf(a, b) ==
    /\ Dim(a) = 2 /\ Dim(b) = 2
    /\ b.shape = <<a.shape[2], a.shape[1]>>
    /\ \A r \in ProbeIdx(a.shape[1]) \cup ProbeIdx(b.shape[2]) :
         \A c \in ProbeIdx(a.shape[2]) \cup ProbeIdx(b.shape[1]) :
           At(a, <<r, c>>) = At(b, <<c, r>>)
    /\ Cardinality(DOMAIN a.nz) = Cardinality(DOMAIN b.nz)

\* C4 as stated: for every time length T, the (T, 13) presentation and the
\* (13, T) presentation of the same content are normalised to the same
\* tensor.
C4_OrientationAnyT ==
    pc = "reformatted" =>
      \A i, j \in DOMAIN Xin :
        (Xin[i].shape[2] = 13 /\ IsTransposeOf(Xin[i], Xin[j]))
        => Xs[i] = Xs[j]

\* the leading 13 x 13 block of the normalised tensor a is the transpose
\* of the leading 13 x 13 block of b
LeadingBlocksTransposed(a, b) ==
    \A c, t \in 0..12 : At(a, <<0, c, t>>) = At(b, <<0, t, c>>)

\* C4 amended: for every time length T other than 13, the (T, 13)
\* presentation and the (13, T) presentation of the same content are
\* normalised to the same tensor; for T = 13 each presentation is taken as
\* channel-major, so that the leading 13 x 13 blocks of the two results
\* are transposes of each other.
C4_OrientationExceptSquare ==
    pc = "reformatted" =>
      \A i, j \in DOMAIN Xin :
        (Xin[i].shape[2] = 13 /\ IsTransposeOf(Xin[i], Xin[j]))
        => IF Xin[i].shape[1] # 13
           THEN Xs[i] = Xs[j]
           ELSE /\ \A c, t \in 0..12 :
                     At(Xs[i], <<0, c, t>>) = RoundF32(At(Xin[i], <<c, t>>))
                /\ LeadingBlocksTransposed(Xs[i], Xs[j])

C4_Witness ==
    /\ pc = "reformatted"
    /\ Len(Xin) = 2
    /\ Xin[1].shape = <<16385, 13>>
    /\ Xin[2].shape = <<13, 16385>>
    /\ IsTransposeOf(Xin[1], Xin[2])
    /\ DOMAIN Xin[1].nz # {}
    /\ Xs[1] = Xs[2]

\* C5: when the first entry reformat cannot accept is a two-axis matrix at
\* index k with no axis of length 13, the call raises the shape-validation
\* error, the error names the index k and the observed shape, and entry k
\* is neither padded, truncated nor reshaped.
C5_ShapeErrorNamesIndexAndShape ==
    ReformatCalled =>
      \A k \in DOMAIN Xin :
        (/\ \A j \in 1..(k - 1) : Accepted(Xin[j])
         /\ Dim(Xin[k]) = 2
         /\ Xin[k].shape[1] # 13 /\ Xin[k].shape[2] # 13)
        => /\ pc = "reformat_raised"
           /\ err.type = "ValueError"
           /\ err.text = "Unexpected tensor shape"
           /\ err.shape = Xin[k].shape
           /\ err.index = k - 1
           /\ Xs[k].shape = Xin[k].shape

(***************************************************************************)
(* Properties of TCN.forward and of the stack                              *)
(***************************************************************************)
\* forward (or get_scores) has been called and has returned or raised
ForwardCalled == pc \in {"scored", "forward_raised"}

\* a three-axis tensor with 13 channels
Is3D(x) == Dim(x) = 3 /\ x.shape[2] = 13

\* positions of the inputs whose time axis is not 16384
BadLength(xs) == {k \in DOMAIN xs : xs[k].shape[3] # 16384}

\* the time axis of an input of forward: the third axis of a three-axis
\* tensor, the axis of a matrix that reformat reads as time; an input with
\* one axis has none
TimeAxis(x) == IF Dim(x) = 3 THEN x.shape[3] ELSE TimeLen(x)

\* positions of the inputs with a time axis that is not 16384
WrongLength(xs) ==
    {k \in DOMAIN xs : Dim(xs[k]) \in {2, 3} /\ TimeAxis(xs[k]) # 16384}

\* C6: when forward (or get_scores) is called on any collection of which
\* some input has a time axis other than 16384, the call fails with an
\* error that names the index and the shape of the first such input, and
\* no result tensor is returned.
C6_ForwardRejectsWrongLength ==
    (ForwardCalled /\ WrongLength(Xs) # {})
    => LET first == CHOOSE k \in WrongLength(Xs) :
                      \A j \in WrongLength(Xs) : k <= j
       IN /\ pc = "forward_raised"
          /\ err.index = first - 1
          /\ err.shape = Xs[first].shape
          /\ out = NoOut

\* C6 on the collections whose inputs all have three axes and 13
\* channels: the call raises the ValueError of lines 81-85, which names
\* the index and the shape of the first input with a time axis other than
\* 16384 (the stack is not run on it), and no result tensor is returned.
C6_ThreeAxisInputs ==
    (/\ ForwardCalled
     /\ \A k \in DOMAIN Xs : Is3D(Xs[k])
     /\ BadLength(Xs) # {})
    => LET first == CHOOSE k \in BadLength(Xs) : \A j \in BadLength(Xs) : k <= j
       IN /\ pc = "forward_raised"
          /\ err.type = "ValueError"
          /\ err.text = "Input sequence length is not equal to safe length"
          /\ err.index = first - 1
          /\ err.shape = Xs[first].shape
          /\ out = NoOut

\* the pooling stages of the stack with kernel 4 and stride 4
PoolStages == {i \in DOMAIN TcnLayers :
                 /\ TcnLayers[i].op = "pool"
                 /\ TcnLayers[i].k = 4 /\ TcnLayers[i].s = 4}

\* C7: the length reformat normalises to, the length forward requires and
\* 4^D, D = 7 the number of stride-4 pooling stages, are all 16384; an
\* activation that enters the stack with that length is accepted by every
\* layer, is 4^p times shorter after p pooling stages (convolutions keep
\* the length), reaches every pooling stage with length at least 4, and
\* leaves the stack with length exactly 1.
C7_SafeLengthIsPoolPower ==
    /\ SAFE_SEQ_LENGTH = 16384
    /\ FORWARD_LENGTH = 16384
    /\ Cardinality(PoolStages) = 7
    /\ Pow(4, Cardinality(PoolStages)) = 16384
    /\ (pc = "stack" /\ len0 = SAFE_SEQ_LENGTH) =>
         /\ err = NoError
         /\ cur[3] >= 1
         /\ cur[3] * Pow(4, Cardinality({i \in PoolStages : i <= layer})) = len0
         /\ (layer < Len(TcnLayers) /\ TcnLayers[layer + 1].op = "pool")
              => cur[3] >= 4
         /\ layer = Len(TcnLayers) => cur[3] = 1

C7_Witness ==
    /\ pc = "stack"
    /\ len0 = 16384
    /\ layer = Len(TcnLayers)
    /\ cur = <<1, 512, 1>>
    /\ err = NoError

\* C8: forward on N >= 1 tensors of shape (1, 13, 16384) returns one tensor
\* of shape (N, 2) whose i-th row is the logit pair computed from the i-th
\* input; with N = 1 the result still has one row of two logits.
C8_ForwardStacksInOrder ==
    (/\ ForwardCalled
     /\ Len(Xs) >= 1
     /\ \A k \in DOMAIN Xs : Xs[k].shape = <<1, 13, 16384>>)
    => /\ pc = "scored"
       /\ out.shape = <<Len(Xs), 2>>
       /\ Len(out.rows) = Len(Xs)
       /\ \A i \in DOMAIN Xs :
            out.rows[i].shape = <<2>> /\ out.rows[i].of = Xs[i]

C8_Witness ==
    /\ pc = "scored"
    /\ Len(Xs) = 2
    /\ Xs[1] # Xs[2]
    /\ out.shape = <<2, 2>>
    /\ out.rows[1].of = Xs[1]
    /\ out.rows[2].of = Xs[2]

(***************************************************************************)
(* Properties of the score interpreter                                     *)
(***************************************************************************)
\* C9: with (p0, p1) the softmax of the logit pair, the interpreter returns
\* "dementia_detected" with confidence p0 when p0 > 0.5, and otherwise
\* "normal" with confidence p1 (probabilities as reported, rounded to four
\* decimals); the result is always one of the two labels.
C9_DecisionRule ==
    pc = "interpreted" =>
      LET p == Softmax(logits)
      IN /\ verdict.result \in {"dementia_detected", "normal"}
         /\ verdict.dementia = Round4(p[1])
         /\ verdict.normal = Round4(p[2])
         /\ (2 * p[1].num > p[1].den)
              => /\ verdict.result = "dementia_detected"
                 /\ verdict.confidence = verdict.dementia
         /\ ~(2 * p[1].num > p[1].den)
              => /\ verdict.result = "normal"
                 /\ verdict.confidence = verdict.normal

C9_Witness ==
    /\ pc = "interpreted"
    /\ logits = <<1, -1>>
    /\ verdict.result = "dementia_detected"
    /\ verdict.confidence = 8808
    /\ verdict.normal = 1192

\* C10: when the dementia probability is exactly 0.5 (equal logits) the
\* interpreter returns "normal".
C10_TieIsNormal ==
    (pc = "interpreted" /\ 2 * Softmax(logits)[1].num = Softmax(logits)[1].den)
    => verdict.result = "normal"

C10_Witness ==
    /\ pc = "interpreted"
    /\ logits[1] = logits[2]
    /\ verdict.dementia = 5000
    /\ verdict.result = "normal"

\* C11: for every logit pair, api.predict_voice_from_audio and
\* test_voice.predict_voice take the dementia probability from softmax
\* index 0 and the normal one from index 1, apply the same strict test
\* p > 0.5 and so reach the same decision, and report the same dementia
\* probability (to the four decimals both of them show).
C11_EntryPointsAgree ==
    (pc = "interpreted" /\ cliOut # NoCli) =>
      LET p == Softmax(logits)
      IN /\ cliOut.returned = p[1]
         /\ verdict.dementia = Round4(p[1])
         /\ cliOut.printedDementia = verdict.dementia
         /\ cliOut.printedNormal = verdict.normal
         /\ Round4(cliOut.returned) = verdict.dementia
         /\ cliOut.warning = (verdict.result = "dementia_detected")

C11_Witness ==
    /\ pc = "interpreted"
    /\ logits = <<-2, 1>>
    /\ cliOut # NoCli
    /\ ~cliOut.warning
    /\ verdict.result = "normal"
    /\ cliOut.printedDementia = 474
    /\ verdict.dementia = 474


(***************************************************************************)
(* Claims about the service                                                *)
(***************************************************************************)
\* the model has all that load_model gives it
Ready(m) ==
    /\ m.weights = "artifact"
    /\ m.onDevice
    /\ m.evalMode
    /\ m.gradOff

\* C12: whenever the model handle is visible to inference (model_obj is not
\* None), the model has its weights loaded from the artifact, is on the
\* target device, is in evaluation mode and has gradients disabled: a load
\* that fails partway leaves no model visible.
C12_VisibleModelIsReady == model_obj # NoModel => Ready(model_obj)

\* C13: once a load has completed, no later event calls load_model again
\* or reassigns the model handle.
C13_LoadedOnce ==
    [][Ready(model_obj) => /\ model_obj' = model_obj
                           /\ loadCalls' = loadCalls]_vars

C13_Witness ==
    /\ Ready(model_obj)
    /\ loadCalls = 1
    /\ nReq >= 2
    /\ resp.handler \in {"predict", "predict_from_url"}
    /\ resp.found

\* C14: a prediction request that finds no model loaded and whose lazy
\* load fails ends with 503, creates no temporary file (none is on disk
\* after it that was not there before) and runs no step of the analysis;
\* predict_voice_from_audio called with no model loaded raises 503 and
\* returns no result.
C14_Unavailable503 ==
    [][resp'.n # resp.n =>
         /\ (resp'.handler \in {"predict", "predict_from_url"}
               /\ ~resp'.found /\ resp'.loadFailed)
             => /\ resp'.status = 503
                /\ ~resp'.tmpCreated
                /\ resp'.ran = <<>>
                /\ resp'.result = NoVerdict
                /\ tmpfiles' = tmpfiles
         /\ (resp'.handler = "predict_voice_from_audio" /\ ~resp'.found)
             => /\ resp'.status = 503
                /\ resp'.ran = <<>>
                /\ resp'.result = NoVerdict]_vars

\* the error texts each step of predict_voice_from_audio can raise
StepErrors(step) ==
    CASE step = "load_audio" -> {"load_audio_file failed"}
      [] step = "extract" -> {"MFCC_Extractor failed"}
      [] step = "normalize" -> {RankError(Vector13, 0).text}
      [] step = "classify" -> {"tensors on different devices"}
      [] OTHER -> {}

\* C15: a failure while loading the audio, extracting, normalizing or
\* classifying reaches the caller as a 500 error carrying the original
\* error text, never as a result.
C15_FailuresPropagate ==
    resp.failed # "none" =>
      /\ resp.status = 500
      /\ resp.detail.text \in StepErrors(resp.failed)
      /\ "Error processing audio" = resp.wrap[Len(resp.wrap)]
      /\ resp.result = NoVerdict

C15_Witness ==
    /\ resp.handler = "predict_voice_from_audio"
    /\ resp.failed = "normalize"
    /\ resp.status = 500
    /\ resp.detail = RankError(Vector13, 0)

\* the number of times a step was run
Times(step, ran) == Cardinality({ i \in DOMAIN ran : ran[i] = step })

\* C16: one request performs at most one load attempt and at most one pass
\* of each step of the analysis; a failed step ends the request with an
\* error and is the last step run.
C16_NoRetry ==
    resp.handler \in {"predict", "predict_from_url",
                      "predict_voice_from_audio"} =>
      /\ resp.loadAttempts <= 1
      /\ \A i \in DOMAIN resp.ran : Times(resp.ran[i], resp.ran) = 1
      /\ resp.loadFailed => (resp.status >= 400 /\ resp.ran = <<>>)
      /\ resp.failed # "none" =>
            /\ resp.status >= 400
            /\ resp.ran[Len(resp.ran)] = resp.failed

C16_Witness ==
    /\ resp.handler = "predict"
    /\ resp.loadAttempts = 1 /\ resp.loadFailed
    /\ nReq = 2 /\ loadCalls = 3

\* C18: a call of predict_voice_from_audio, whether it succeeds or fails,
\* leaves the parameters, the evaluation mode and the model handle as they
\* were, and its forward computation runs with gradient tracking disabled.
C18_InferenceKeepsModel ==
    [][(resp'.n # resp.n
          /\ \/ resp'.handler = "predict_voice_from_audio"
             \/ (resp'.handler \in {"predict", "predict_from_url"}
                   /\ resp'.loadAttempts = 0))
        => /\ model_obj' = model_obj
           /\ Times("classify", resp'.ran) = 1 => resp'.grad = "disabled"]_vars

C18_Witness ==
    /\ resp.handler = "predict_voice_from_audio"
    /\ resp.status = 200
    /\ Ready(model_obj)
    /\ resp.grad = "disabled"
    /\ nReq = 2

(***************************************************************************)
(* Claims about the kinds of error                                         *)
(***************************************************************************)
\* the messages of the errors raised for a broken invariant
InvariantTexts == {"Input sequence length is not equal to safe length"}

\* the messages of the errors raised for a problem of the user's input
UserInputTexts == {"Expected 2D tensor", "Unexpected tensor shape"}

\* the error as predict_voice_from_audio reports it to its caller
Reported(e) == Http500("Error processing audio", e)

\* C17: the error for a tensor reaching the classifier with a time axis
\* other than 16384 and the errors for a problem of the user's input (wrong
\* rank, neither axis of length 13) differ by their message, as raised by
\* TCN and as reported to the caller of predict_voice_from_audio.
C17_ErrorKindsDiffer ==
    /\ InvariantTexts \cap UserInputTexts = {}
    /\ (/\ ForwardCalled
        /\ \A k \in DOMAIN Xs : Is3D(Xs[k])
        /\ BadLength(Xs) # {})
       => /\ err.text \in InvariantTexts
          /\ Reported(err).status = 500
          /\ Reported(err).detail.text \in InvariantTexts
    /\ (ReformatCalled /\ \E k \in DOMAIN Xin : ~Accepted(Xin[k]))
        => /\ err.text \in UserInputTexts
           /\ Reported(err).status = 500
           /\ Reported(err).detail.text \in UserInputTexts

C17_Witness ==
    /\ pc = "reformat_raised"
    /\ Len(Xin) = 2
    /\ Accepted(Xin[1])
    /\ Dim(Xin[2]) = 1
    /\ Reported(err).detail.text = "Expected 2D tensor"

(***************************************************************************)
(* Claims about calls running at the same time                             *)
(***************************************************************************)
\* what the caller sees of a response
Outcome(r) ==
    [status |-> r.status, detail |-> r.detail, wrap |-> r.wrap,
     result |-> r.result]

\* the response of the call when it runs alone
Alone(audio) ==
    predict_voice_from_audio(model_obj, artifact, <<0, 0>>, audio).resp

\* C19: under every interleaving of the steps of the calls, each call that
\* has ended has the outcome it has when it runs alone.
C19_CallsAreIsolated ==
    \A c \in DOMAIN calls :
      calls[c].at = "done" =>
        Outcome(calls[c].resp) = Outcome(Alone(calls[c].audio))

C19_Witness ==
    /\ Len(calls) >= 2
    /\ calls[1].at = "done" /\ calls[2].at = "done"
    /\ calls[1].audio.id = "a1" /\ calls[2].audio.id = "a2"
    /\ calls[1].resp.status = 200 /\ calls[2].resp.status = 200
    /\ calls[1].resp.result # calls[2].resp.result

(***************************************************************************)
(* Claims about the dataset scripts                                        *)
(***************************************************************************)
\* C21: every construction of the feature extractor, at inference and in
\* the dataset scripts (imported or fallback audio_to_mfcc), has sample
\* rate 16000, window 25 ms, hop 10 ms, 13 coefficients and 26 filters: no
\* .npy file is written with another configuration than inference uses.
C21_SameExtractorEverywhere ==
    /\ ApiExtractor = [samplerate |-> 16000, winlen |-> 25, winstep |-> 10,
                       numcep |-> 13, nfilt |-> 26]
    /\ TestVoiceExtractor = ApiExtractor
    /\ \A path \in DOMAIN disk.mfcc : disk.mfcc[path].config = ApiExtractor

C21_Witness ==
    /\ ret.script = "auto_convert_audio"
    /\ ~ret.importOk
    /\ ret.run = 1
    /\ \E path \in DOMAIN disk.mfcc :
         disk.mfcc[path].config = AutoConvertFallbackExtractor

(***************************************************************************)
(* Claims about the stack                                                  *)
(***************************************************************************)
\* C22: when the stack raises a pooling failure for the input at index idx
\* although its length was validated, forward raises an error that names
\* idx and the shape of that input and has the original error attached;
\* every other failure of the stack is raised as it is; in both cases no
\* result is returned.
C22_PoolFailureIsClarified ==
    pc = "stack_raised" =>
      /\ out = NoOut
      /\ IF fault.error.type = "RuntimeError"
            /\ fault.error.text = "max_pool1d: Invalid computed output size"
         THEN /\ err.type = "RuntimeError"
              /\ err.text = "MaxPool1d error for input at index"
              /\ err.index = fault.index
              /\ err.shape = Xs[fault.index + 1].shape
              /\ err.cause = fault.error
         ELSE err = fault.error

C22_Witness ==
    /\ pc = "stack_raised"
    /\ Len(Xs) = 2
    /\ fault.index = 1
    /\ err.text = "MaxPool1d error for input at index"
    /\ err.index = 1
    /\ err.shape = <<2, 13, 16384>>
    /\ err.cause.type = "RuntimeError"

\* the time length a stack input of length L leaves the seven pools with
SevenDivisionsBy4(L) ==
    ((((((L \div 4) \div 4) \div 4) \div 4) \div 4) \div 4) \div 4

\* C23: forward_wo_gpool returns one feature map per input, in input order:
\* the output of the stack alone, with 512 channels, the input's time length
\* divided seven times by 4 and the input's rank, so neither the mean over
\* time nor the linear head was applied; what get_scores returns is the
\* stacked two-logit rows of forward, never such maps.
C23_FeatureMapsBeforePooling ==
    /\ pc = "maps_returned" =>
         /\ err = NoError
         /\ Len(out.rows) = Len(Xs)
         /\ \A i \in DOMAIN Xs :
              LET X == Xs[i]
                  map == out.rows[i]
                  n == Dim(X)
              IN /\ map.of = X
                 /\ Len(map.shape) = n
                 /\ map.shape[n - 1] = 512
                 /\ map.shape[n] = SevenDivisionsBy4(X.shape[n])
                 /\ n = 3 => map.shape[1] = X.shape[1]
    /\ pc = "scored" =>
         /\ out = forward(Xs).out
         /\ \A i \in DOMAIN out.rows : out.rows[i].shape \in {<<2>>, <<2, 2>>}

C23_Witness ==
    /\ pc = "maps_returned"
    /\ Len(Xs) = 2
    /\ Xs[1].shape = <<2, 13, 16384>>
    /\ Xs[2].shape = <<1, 13, 16385>>
    /\ out.rows[1].shape = <<2, 512, 1>>
    /\ out.rows[2].shape = <<1, 512, 1>>

\* the convolution stages and the pooling stages of the stack, in order
ConvStages == SelectSeq(TcnLayers, LAMBDA l : l.op = "conv")
PoolDescriptors == SelectSeq(TcnLayers, LAMBDA l : l.op = "pool")

\* C24: the stack is a well-formed chain: the first convolution takes 13
\* channels with kernel 1 and no padding; every later convolution has kernel
\* 3, stride 1, padding 1 and takes the channels the convolution before it
\* produces; there are exactly seven pools, each with kernel 4 and stride 4;
\* the stack ends with 512 channels; the head is one bias-free linear map
\* from 512 to 2.  An activation that went through the whole stack
\* therefore has 512 channels.
C24_StackIsWellFormedChain ==
    /\ ConvStages[1].in = 13 /\ ConvStages[1].k = 1 /\ ConvStages[1].p = 0
    /\ \A i \in 2..Len(ConvStages) :
         /\ ConvStages[i].k = 3 /\ ConvStages[i].s = 1 /\ ConvStages[i].p = 1
         /\ ConvStages[i].in = ConvStages[i - 1].out
    /\ Len(PoolDescriptors) = 7
    /\ \A i \in DOMAIN PoolDescriptors : PoolDescriptors[i].k = 4 /\ PoolDescriptors[i].s = 4
    /\ ConvStages[Len(ConvStages)].out = 512
    /\ MlpHead.in = 512 /\ MlpHead.out = 2 /\ ~MlpHead.bias
    /\ (pc = "stack" /\ layer = Len(TcnLayers)) =>
         /\ cur[2] = MlpHead.in
         /\ Mlp(MeanDim2(cur)).err = NoError

C24_Witness ==
    /\ pc = "stack"
    /\ layer = Len(TcnLayers)
    /\ len0 = 32768
    /\ cur = <<1, 512, 2>>
    /\ Mlp(MeanDim2(cur)).shape = <<1, 2>>

(***************************************************************************)
(* Claims about the service, continued                                     *)
(***************************************************************************)
\* C25: for every /predict and /predict/url request that created a
\* temporary file, the file no longer exists when the handler has finished,
\* whether the analysis succeeded, the upload or the download failed, or
\* the analysis failed.
C25_TempFileRemoved ==
    (resp.handler \in {"predict", "predict_from_url"} /\ resp.tmpCreated)
      => <<"audio", resp.n>> \notin tmpfiles

\* C26: when the load at startup has failed, at whichever step, the service
\* serves, /health reports model_loaded false, and the first prediction
\* request that follows (and passes the check of its file type) calls
\* load_model again.
C26_FailedStartupIsRetried ==
    [][(resp.handler = "startup" /\ resp.loadFailed /\ nReq = 0) =>
         /\ pc = "serving"
         /\ resp'.handler = "health_check" => ~resp'.modelLoaded
         /\ (\/ pending' # pending
             \/ (resp'.handler \in {"predict", "predict_from_url"}
                   /\ resp'.status # 400))
            => loadCalls' = loadCalls + 1]_vars

(***************************************************************************)
(* Claims about the dataset scripts, continued                             *)
(***************************************************************************)
\* the persons of a listing with at least one file that converts
WithFeatures(files) == {f.person : f \in {g \in files : g.ok}}

\* the audio files of person p under directory d that convert, in the
\* order of their names
AudioOf(d, p) ==
    LET c == Converted(process_directory(d, dirs[d], ConvertAllOutputDir,
                                         [q \in {f.person : f \in dirs[d]} |->
                                            Sorted({f \in dirs[d] :
                                                      f.person = q})])[p])
    IN [i \in DOMAIN c |-> c[i].audio]

\* the rows of the csv file on disk; none where no csv file was written
CsvRows ==
    IF ConvertAllCsvOutput \in DOMAIN disk.csv
    THEN disk.csv[ConvertAllCsvOutput]
    ELSE EmptyDict

\* C27: after convert_all_data has run, every person found under the
\* dementia directory is written with label 1 and every person found under
\* the normal directory with label 0, each with the list of their own
\* files: no list is lost or overwritten by the merge, also when a name
\* occurs under both directories.
C27_MergeKeepsEveryPerson ==
    ret.script = "convert_all_data" =>
      /\ \A p \in WithFeatures(dirs.dementia) :
           \E q \in DOMAIN CsvRows :
              /\ CsvRows[q].is_demented_at_recording = 1
              /\ CsvRows[q].audio = AudioOf("dementia", p)
      /\ \A p \in WithFeatures(dirs.normal) :
           \E q \in DOMAIN CsvRows :
              /\ CsvRows[q].is_demented_at_recording = 0
              /\ CsvRows[q].audio = AudioOf("normal", p)

\* no file of directory d can be converted and none has its .npy file yet
NoneConverts(d) ==
    \A f \in dirs[d] :
       /\ ~f.ok
       /\ OutPath(AutoOutputDir(d), f.person, f.n) \notin DOMAIN disk.mfcc

\* C28: a run of auto_convert_directory writes the task files only after
\* it has written the csv file; when it finds no audio file, or every
\* conversion fails, it writes neither and returns (None, None).
C28_TaskFilesOnlyAfterCsv ==
    [][(ret'.script = "auto_convert_audio" /\ ret'.run = ret.run + 1) =>
         LET wrote == SubSeq(disk'.log, Len(disk.log) + 1, Len(disk'.log))
         IN /\ wrote \in {<<>>, <<"csv", "task", "task">>}
            /\ wrote = <<>> <=> ret'.value = <<None, None>>
            /\ wrote = <<>> => disk'.tasks = disk.tasks /\ disk'.csv = disk.csv
            /\ NoneConverts(ret'.input) => wrote = <<>>]_vars

C28_Witness ==
    /\ ret.script = "auto_convert_audio"
    /\ ret.run = 1
    /\ dirs[ret.input] # {}
    /\ ret.value = <<None, None>>
    /\ disk.tasks = {}
    /\ disk.log = <<>>

(***************************************************************************)
(* Claims about reformat, continued                                        *)
(***************************************************************************)
\* entry x is one reformat raises on: not two-axis, or no axis of length 13
Rejected(x) ==
    \/ Dim(x) # 2
    \/ x.shape[1] # NUM_CEP /\ x.shape[2] # NUM_CEP

\* C29: reformat rewrites the collection in place in index order: when it
\* raises at entry k, every entry before k is already its normalized
\* (1, 13, 16384) float32 tensor and every entry after k is as it was
\* before the call.
C29_RaiseKeepsPrefixNormalized ==
    pc = "reformat_raised" =>
      \E k \in DOMAIN Xin :
         /\ Rejected(Xin[k])
         /\ err.shape = Xin[k].shape
         /\ \A j \in 1..(k - 1) :
              /\ ~Rejected(Xin[j])
              /\ Xs[j].shape = <<1, NUM_CEP, SAFE_SEQ_LENGTH>>
              /\ Xs[j].dtype = "float32"
              /\ Xs[j] = ReformatEntry(Xin[j], j - 1).x
         /\ \A j \in (k + 1)..Len(Xin) : Xs[j] = Xin[j]
         /\ Len(Xs) = Len(Xin)

C29_Witness ==
    /\ pc = "reformat_raised"
    /\ Len(Xin) = 2
    /\ Xin[1].shape = <<16385, 13>>
    /\ Xin[2].shape = <<5, 7>>
    /\ Xs[1].shape = <<1, 13, 16384>>
    /\ Xs[1] # Xin[1]

\* C30: reformat is not idempotent on its own output: called again on a
\* collection it has normalized, it raises the rank error for the entry at
\* index 0, now a three-axis tensor, and leaves every entry as it was after
\* the first call.
C30_SecondReformatRaises ==
    [][(pc = "reformatted" /\ pc' \in {"reformatted_again",
                                       "reformat_again_raised"}
          /\ Xs # <<>>) =>
         /\ pc' = "reformat_again_raised"
         /\ err'.type = "ValueError"
         /\ err'.text = "Expected 2D tensor"
         /\ err'.shape = <<1, NUM_CEP, SAFE_SEQ_LENGTH>>
         /\ Dim(Xs[1]) = 3
         /\ Xs' = Xs]_vars

C30_Witness ==
    /\ pc = "reformat_again_raised"
    /\ Len(Xs) = 2
    /\ Xin[1].shape = <<13, 16385>>
    /\ Xs[1].shape = <<1, 13, 16384>>
    /\ Xs[2].shape = <<1, 13, 16384>>
    /\ err.text = "Expected 2D tensor"

====
